---- MODULE Spec2Model ----
(***************************************************************************)
(* Voxel world core of bevy-voxel-game: chunk store, terrain generation,   *)
(* mesh extraction gate, chunk streaming and the collision resolver.       *)
(*                                                                         *)
(* The specifications of the module:                                       *)
(*   Spec          the streaming tick (load_chunks, unload_chunks,         *)
(*                 generate_terrain, generate_mesh, observer movement,     *)
(*                 command application), the systems in any order          *)
(*   SpecWorkers   the same tick with the workers of generate_terrain      *)
(*                 interleaved step by step, the observer standing still   *)
(*   SpecCollision collision + move_camera on a store built by the         *)
(*                 streaming code                                          *)
(*   SpecTerrain   the fill loop of generate_terrain on one column         *)
(*   SpecMesh      generate_mesh on worlds of several height fields        *)
(*   SpecLookup    the lookup functions of ChunkManager, call by call      *)
(*   SpecStill     the streaming tick under the fairness of the schedule,  *)
(*                 the observer standing still                             *)
(*   SpecFair      the streaming tick under the fairness of the schedule,  *)
(*                 the observer moving                                     *)
(*   SpecLocks     generate_terrain and generate_mesh at the level of      *)
(*                 their mutexes, the workers of the pool interleaved      *)
(*   SpecIter      the voxel iterators of ChunkData, call by call          *)
(***************************************************************************)
EXTENDS Integers, Sequences, FiniteSets, TLC

(***************************************************************************)
(* World parameters.  The program's values (CHUNK_SIZE 16, WORLD_HEIGHT 8, *)
(* RENDER_DISTANCE 8, LOD_RANGE 3) are scaled down so that the state space *)
(* is finite and small; every formula below is written against the names.  *)
(***************************************************************************)
CHUNK_SIZE == 2

WORLD_HEIGHT == 3

RENDER_DISTANCE == 1

LOD_RANGE == 1

\* thickness of the dirt band: the literal 3 of `height-3`
DIRT_DEPTH == 3

\* width of usize in the model (wrapping arithmetic of a release build)
UsizeBits == 8

\* number of terrain workers that can be inside the parallel loop at once
MaxWorkers == 2

\* the observer's voxel x coordinate stays in -NegCoordX..MaxCoordX, and z in 0..MaxCoordZ
NegCoordX == 1

MaxCoordX == 4

MaxCoordZ == 0

\* furthest the observer travels in one move_camera call, in voxels per axis
MaxStep == 2

\* the observer changes position in at most MaxMoves ticks of a behaviour
MaxMoves == 2

\* fixed point: positions and velocities are held in 1/Scale of a voxel
Scale == 3

\* |velocity| per axis at the start of collision, in fixed point units per unit of time
MaxVel == 1

\* Time::delta_seconds takes the values 1 .. MaxDelta
MaxDelta == 1

\* half_extents of the observer's box on every axis, in fixed point units
HalfExtent == 1

\* steepest ramp of the height fields drawn, in voxels per column
MaxSlope == 2

\* get_keys is called with positions in -MaxPos .. MaxPos on every axis
MaxPos == 4

(***************************************************************************)
(* Integer and vector helpers                                              *)
(***************************************************************************)
Abs(a) == IF a < 0 THEN -a ELSE a

Max(a, b) == IF a >= b THEN a ELSE b

Min(a, b) == IF a <= b THEN a ELSE b

RECURSIVE Pow2(_)
Pow2(n) == IF n <= 0 THEN 1 ELSE 2 * Pow2(n - 1)

\* the division truncating toward zero in place of div_euclid
DivEuclid_truncating(a, n) == IF a >= 0 THEN a \div n ELSE -((-a) \div n)

\* i32::div_euclid / rem_euclid with a positive divisor
DivEuclid(a, n) == IF a >= 0 THEN a \div n ELSE -(((-a) + n - 1) \div n)

RemEuclid(a, n) == a - n * DivEuclid(a, n)

\* Rust's `/` on i32 and `as i32` on a float quotient: truncation toward zero
TruncDiv(a, n) == IF a >= 0 THEN a \div n ELSE -((-a) \div n)

\* (n as f32).log2() as u32
RECURSIVE Log2Floor(_)
Log2Floor(n) == IF n < 2 THEN 0 ELSE 1 + Log2Floor(n \div 2)

VAdd(a, b) == <<a[1] + b[1], a[2] + b[2], a[3] + b[3]>>

VSub(a, b) == <<a[1] - b[1], a[2] - b[2], a[3] - b[3]>>

VScale(a, s) == <<a[1] * s, a[2] * s, a[3] * s>>

VMul(a, b) == <<a[1] * b[1], a[2] * b[2], a[3] * b[3]>>

(***************************************************************************)
(* Block catalog                                                           *)
(***************************************************************************)
Blocks == {"Air", "Grass", "Dirt", "Stone"}

transparent(b) == b = "Air"

full(b) == b # "Air"

(***************************************************************************)
(* Chunk store                                                             *)
(***************************************************************************)
Idx == 0 .. (CHUNK_SIZE - 1)

\* ChunkData::default(): data[z][y][x] all Air, generated false
DefaultData == [z \in Idx |-> [y \in Idx |-> [x \in Idx |-> "Air"]]]

DefaultChunk == [data |-> DefaultData, generated |-> FALSE]

get_unchecked(c, p) == c.data[p[3]][p[2]][p[1]]

is_loaded(store, key) == key \in DOMAIN store

is_generated(store, key) == IF key \in DOMAIN store THEN store[key].generated ELSE FALSE

\* the range closed at WORLD_HEIGHT: (0..=WORLD_HEIGHT)
in_world_range_inclusive(key) == 0 <= key[2] /\ key[2] <= WORLD_HEIGHT

in_world_range(key) == key[2] \in 0 .. (WORLD_HEIGHT - 1)

\* (-1..=1) x (-1..=1) x (-1..=1)
Cube == { <<x, y, z>> : x \in -1 .. 1, y \in -1 .. 1, z \in -1 .. 1 }

adjacent_keys(key) ==
    { v \in { VAdd(o, key) : o \in Cube } : v # key /\ in_world_range(v) }

get_keys(global_pos) ==
    [key |-> <<DivEuclid(global_pos[1], CHUNK_SIZE),
               DivEuclid(global_pos[2], CHUNK_SIZE),
               DivEuclid(global_pos[3], CHUNK_SIZE)>>,
     pos |-> <<RemEuclid(global_pos[1], CHUNK_SIZE),
               RemEuclid(global_pos[2], CHUNK_SIZE),
               RemEuclid(global_pos[3], CHUNK_SIZE)>>]

\* the lookup without its test of the generated flag
get_with_adjacent_any(store, key, pos) ==
    LET chunk_key == VAdd(key, <<DivEuclid(pos[1], CHUNK_SIZE),
                                 DivEuclid(pos[2], CHUNK_SIZE),
                                 DivEuclid(pos[3], CHUNK_SIZE)>>)
    IN  IF chunk_key \notin DOMAIN store THEN <<>>
        ELSE <<get_unchecked(store[chunk_key],
                             <<RemEuclid(pos[1], CHUNK_SIZE),
                               RemEuclid(pos[2], CHUNK_SIZE),
                               RemEuclid(pos[3], CHUNK_SIZE)>>)>>

\* Option<Block> as a sequence of length 0 or 1
get_with_adjacent(store, key, pos) ==
    LET chunk_key == VAdd(key, <<DivEuclid(pos[1], CHUNK_SIZE),
                                 DivEuclid(pos[2], CHUNK_SIZE),
                                 DivEuclid(pos[3], CHUNK_SIZE)>>)
    IN  IF chunk_key \notin DOMAIN store THEN <<>>
        ELSE IF store[chunk_key].generated
             THEN <<get_unchecked(store[chunk_key],
                                  <<RemEuclid(pos[1], CHUNK_SIZE),
                                    RemEuclid(pos[2], CHUNK_SIZE),
                                    RemEuclid(pos[3], CHUNK_SIZE)>>)>>
             ELSE <<>>

(***************************************************************************)
(* Terrain generation: the per-voxel classification and the fill loop      *)
(***************************************************************************)
Builds == {"debug", "release"}

\* usize subtraction: a debug build aborts on overflow, a release build wraps
UsizeSub(a, b, bld) ==
    IF a >= b THEN [panic |-> FALSE, val |-> a - b]
    ELSE IF bld = "debug" THEN [panic |-> TRUE, val |-> 0]
    ELSE [panic |-> FALSE, val |-> a - b + Pow2(UsizeBits)]

ClassifyBlock(y_real, height, bld) ==
    IF y_real > height THEN "Air"
    ELSE IF y_real = height THEN "Grass"
    ELSE LET lim == UsizeSub(height, DIRT_DEPTH, bld)
         IN  IF lim.panic THEN "Panic"
             ELSE IF y_real > lim.val THEN "Dirt"
             ELSE "Stone"

\* The surface height of world column (wx, wz), already cast to usize.  The
\* noise field is an opaque deterministic input with values in
\* 0 .. CHUNK_SIZE * WORLD_HEIGHT; this one takes the heights 0, 2, 3 and 4
\* (world height permitting), so columns lower than the dirt band occur.
NoiseHeight(wx, wz) ==
    LET v == RemEuclid(wx + 2 * wz, 4)
    IN  IF v = 0 THEN 0 ELSE Min(v + 1, CHUNK_SIZE * WORLD_HEIGHT)

\* the array the fill loop of generate_terrain leaves in `data`
GenerateData(key, bld) ==
    [z \in Idx |-> [y \in Idx |-> [x \in Idx |->
        ClassifyBlock(y + key[2] * CHUNK_SIZE,
                      NoiseHeight(key[1] * CHUNK_SIZE + x, key[3] * CHUNK_SIZE + z),
                      bld)]]]

(***************************************************************************)
(* State                                                                   *)
(***************************************************************************)
VARIABLES
    chunks,        \* ChunkManager.chunks : key -> ChunkData (a map: DOMAIN = loaded keys)
    meshes,        \* ChunkManager.meshes : key -> (Entity, lod)
    entities,      \* live chunk entities : id -> components
    meshAssets,    \* Assets<Mesh> : handle -> mesh buffers (<<>> while never written)
    commands,      \* per system, the deferred commands of this tick
    translation,   \* the observer's Transform.translation, in voxels
    ran,           \* systems that have run in the current tick
    tpc,           \* generate_terrain: entity -> position of its worker
    tlocal,        \* generate_terrain: entity -> the worker's local `data`
    build,         \* "debug" (overflow checks) or "release" (wrapping)
    panicked,      \* the process aborted
    processed,     \* history: keys some load_chunks pass has visited
    writes,        \* history: key -> number of times its voxel array was stored
    skips,         \* history: key -> number of workers that found it generated
    loadKey,       \* history: player_key of this tick's load_chunks (<<>> before it runs)
    unloadKey,     \* history: player_key of this tick's unload_chunks
    bounding,      \* BoundingBox of the observer, fixed point
    velocity,      \* Velocity, fixed point units per unit of time
    velocityMask,  \* VelocityMask
    delta,         \* Time::delta_seconds of the tick
    prevVelocity,  \* history: velocity when collision started
    moves,         \* number of ticks in which the observer changed position
    classified,    \* the column the fill loop is in: its height, the next y, the blocks so far
    probe,         \* a call of a lookup function: its name, its arguments, its result
    locks,         \* the mutexes of the parallel passes: mutex -> the workers holding it
    mpc            \* generate_mesh: entity -> position of its worker

vars == <<chunks, meshes, entities, meshAssets, commands, translation, ran, tpc, tlocal,
          build, panicked, processed, writes, skips, loadKey, unloadKey,
          bounding, velocity, velocityMask, delta, prevVelocity, moves, classified, probe, locks, mpc>>

streamVars == <<chunks, meshes, entities, meshAssets, commands, translation, ran, tpc,
                tlocal, processed, writes, skips, loadKey, unloadKey>>

playerVars == <<bounding, velocity, velocityMask, delta, prevVelocity, moves>>

boxVars == <<bounding, velocity, velocityMask, delta, prevVelocity>>

Systems == {"load_chunks", "unload_chunks", "generate_terrain", "generate_mesh", "move_camera"}

CommandSystems == {"load_chunks", "unload_chunks", "generate_terrain", "generate_mesh"}

\* a system's buffer names each entity at most once: entity -> command
NoQueue == [e \in {} |-> [op |-> "none"]]

NoCommands == [s \in CommandSystems |-> NoQueue]

\* no parallel pass is in progress
Idle == DOMAIN tpc = {}

(***************************************************************************)
(* Streaming controller: load_chunks                                       *)
(***************************************************************************)
\* (player.translation / CHUNK_SIZE as f32).as_ivec3(), then y = 0
PlayerKey(t) == <<TruncDiv(t[1], CHUNK_SIZE), 0, TruncDiv(t[3], CHUNK_SIZE)>>

\* the loop with its x range open at the far end: (-RD..RD) for (-RD..=RD)
LoadOffsets_open ==
    { <<i, j, k>> : i \in (-RENDER_DISTANCE) .. (RENDER_DISTANCE - 1),
                    j \in 0 .. (WORLD_HEIGHT - 1),
                    k \in (-RENDER_DISTANCE) .. RENDER_DISTANCE }

\* the (i, j, k) of the loop
LoadOffsets ==
    { <<i, j, k>> : i \in (-RENDER_DISTANCE) .. RENDER_DISTANCE,
                    j \in 0 .. (WORLD_HEIGHT - 1),
                    k \in (-RENDER_DISTANCE) .. RENDER_DISTANCE }

\* the keys the loop body runs for
LoadKeys(player_key) ==
    { key \in { VAdd(o, player_key) : o \in LoadOffsets } : in_world_range(key) }

\* the loop without `manager.chunks.insert(key, ..)`
InsertMissing_skipped(store, keys) == store

\* the insert without its is_loaded test
InsertMissing_reset(store, keys) ==
    [k \in (DOMAIN store) \cup keys |-> IF k \in keys THEN DefaultChunk ELSE store[k]]

\* the store after the `if !manager.is_loaded(key) { insert }` of every iteration
InsertMissing(store, keys) ==
    [k \in (DOMAIN store) \cup keys |-> IF is_loaded(store, k) THEN store[k] ELSE DefaultChunk]

\* the lod expression without its abs
RequiredLod_no_abs(i, k) ==
    Min(Max(TruncDiv(i, LOD_RANGE), TruncDiv(k, LOD_RANGE)), Log2Floor(CHUNK_SIZE))

\* (i / LOD_RANGE).abs().max((k / LOD_RANGE).abs()), then .min(log2(CHUNK_SIZE))
RequiredLod(i, k) ==
    Min(Max(Abs(TruncDiv(i, LOD_RANGE)), Abs(TruncDiv(k, LOD_RANGE))), Log2Floor(CHUNK_SIZE))

LodOf(key, player_key) == RequiredLod(key[1] - player_key[1], key[3] - player_key[3])

\* commands.spawn(..).id(): an id no live entity has
NewEntity(ents, key) == IF <<key, 0>> \in DOMAIN ents THEN <<key, 1>> ELSE <<key, 0>>

Cmd(op, key, lod, terrain) ==
    [op |-> op, key |-> key, lod |-> lod, terrain |-> terrain]

\* the spawn with NeedsTerrain attached whatever the chunk's state
SpawnCmd_with_terrain(store, key, pk) == Cmd("spawn", key, LodOf(key, pk), TRUE)

\* commands.spawn((Chunk { key }, NeedsMesh(lod), ..)), and
\* `if !manager.is_generated(key) { entity.insert(NeedsTerrain); }`
SpawnCmd(store, key, pk) == Cmd("spawn", key, LodOf(key, pk), ~is_generated(store, key))

\* load_chunks without `if *loaded_lod == lod { continue; }`
LoadChunks_always_request ==
    /\ ~panicked /\ Idle /\ "load_chunks" \notin ran
    /\ LET pk == PlayerKey(translation)
           keys == LoadKeys(pk)
           store1 == InsertMissing(chunks, keys)
           existing == { k \in keys : k \in DOMAIN meshes }
           fresh == keys \ existing
       IN  /\ chunks' = store1
           /\ meshes' = [k \in (DOMAIN meshes) \cup fresh |->
                           IF k \in fresh
                           THEN [entity |-> NewEntity(entities, k), lod |-> LodOf(k, pk)]
                           ELSE IF k \in existing
                                THEN [meshes[k] EXCEPT !.lod = LodOf(k, pk)]
                                ELSE meshes[k]]
           /\ meshAssets' = [h \in (DOMAIN meshAssets) \cup { NewEntity(entities, k) : k \in fresh }
                               |-> IF h \in DOMAIN meshAssets THEN meshAssets[h] ELSE <<>>]
           /\ commands' = [commands EXCEPT !["load_chunks"] =
                  [e \in { meshes[k].entity : k \in existing }
                          \cup { NewEntity(entities, k) : k \in fresh } |->
                      IF e[1] \in existing
                      THEN Cmd("insert_needs_mesh", e[1], LodOf(e[1], pk), FALSE)
                      ELSE SpawnCmd(store1, e[1], pk)]]
           /\ processed' = processed \cup keys
           /\ loadKey' = <<pk>>
    /\ ran' = ran \cup {"load_chunks"}
    /\ UNCHANGED <<entities, translation, tpc, tlocal, build, panicked, writes, skips, unloadKey,
                   classified, probe, locks, mpc>>
    /\ UNCHANGED playerVars

\* the loop of load_chunks over the keys around the observer
LoadChunks ==
    /\ ~panicked /\ Idle /\ "load_chunks" \notin ran
    /\ LET pk == PlayerKey(translation)
           keys == LoadKeys(pk)
           store1 == InsertMissing(chunks, keys)
           existing == { k \in keys : k \in DOMAIN meshes }
           changed == { k \in existing : meshes[k].lod # LodOf(k, pk) }
           fresh == keys \ existing
       IN  /\ chunks' = store1
           /\ meshes' = [k \in (DOMAIN meshes) \cup fresh |->
                           IF k \in fresh
                           THEN [entity |-> NewEntity(entities, k), lod |-> LodOf(k, pk)]
                           ELSE IF k \in changed
                                THEN [meshes[k] EXCEPT !.lod = LodOf(k, pk)]
                                ELSE meshes[k]]
           /\ meshAssets' = [h \in (DOMAIN meshAssets) \cup { NewEntity(entities, k) : k \in fresh }
                               |-> IF h \in DOMAIN meshAssets THEN meshAssets[h] ELSE <<>>]
           /\ commands' = [commands EXCEPT !["load_chunks"] =
                  [e \in { meshes[k].entity : k \in changed }
                          \cup { NewEntity(entities, k) : k \in fresh } |->
                      IF e[1] \in changed
                      THEN Cmd("insert_needs_mesh", e[1], LodOf(e[1], pk), FALSE)
                      ELSE SpawnCmd(store1, e[1], pk)]]
           /\ processed' = processed \cup keys
           /\ loadKey' = <<pk>>
    /\ ran' = ran \cup {"load_chunks"}
    /\ UNCHANGED <<entities, translation, tpc, tlocal, build, panicked, writes, skips, unloadKey,
                   classified, probe, locks, mpc>>
    /\ UNCHANGED playerVars

(***************************************************************************)
(* Streaming controller: unload_chunks                                     *)
(***************************************************************************)
\* relative_key.cmplt((-RD, 0, -RD)).any() || relative_key.cmpgt((RD, WORLD_HEIGHT, RD)).any()
OutOfRange(rel) ==
    \/ rel[1] < -RENDER_DISTANCE \/ rel[2] < 0 \/ rel[3] < -RENDER_DISTANCE
    \/ rel[1] > RENDER_DISTANCE \/ rel[2] > WORLD_HEIGHT \/ rel[3] > RENDER_DISTANCE

Evicted(ents, player_key) ==
    { e \in DOMAIN ents : OutOfRange(VSub(ents[e].key, player_key)) }

\* unload_chunks with the line `manager.chunks.remove(&chunk.key)` restored
UnloadChunks_remove_data ==
    /\ ~panicked /\ Idle /\ "unload_chunks" \notin ran
    /\ LET pk == PlayerKey(translation)
           out == Evicted(entities, pk)
           gone == { entities[e].key : e \in out }
       IN  /\ commands' = [commands EXCEPT !["unload_chunks"] =
                              [e \in out |-> Cmd("despawn", entities[e].key, 0, FALSE)]]
           /\ meshes' = [k \in (DOMAIN meshes) \ gone |-> meshes[k]]
           /\ chunks' = [k \in (DOMAIN chunks) \ gone |-> chunks[k]]
           /\ unloadKey' = <<pk>>
    /\ ran' = ran \cup {"unload_chunks"}
    /\ UNCHANGED <<entities, meshAssets, translation, tpc, tlocal, build, panicked,
                   processed, writes, skips, loadKey, classified, probe, locks, mpc>>
    /\ UNCHANGED playerVars

\* the loop of unload_chunks: the out-of-range entities are despawned and their
\* keys leave `meshes`; the store is not touched (its remove is commented out)
UnloadChunks ==
    /\ ~panicked /\ Idle /\ "unload_chunks" \notin ran
    /\ LET pk == PlayerKey(translation)
           out == Evicted(entities, pk)
           gone == { entities[e].key : e \in out }
       IN  /\ commands' = [commands EXCEPT !["unload_chunks"] =
                              [e \in out |-> Cmd("despawn", entities[e].key, 0, FALSE)]]
           /\ meshes' = [k \in (DOMAIN meshes) \ gone |-> meshes[k]]
           /\ unloadKey' = <<pk>>
    /\ ran' = ran \cup {"unload_chunks"}
    /\ UNCHANGED <<chunks, entities, meshAssets, translation, tpc, tlocal, build, panicked,
                   processed, writes, skips, loadKey, classified, probe, locks, mpc>>
    /\ UNCHANGED playerVars

(***************************************************************************)
(* Terrain generator: generate_terrain, one worker per queried entity      *)
(***************************************************************************)
\* a total order on entity ids: the order in which the pool takes up the tasks
Rank(e) ==
    (((e[1][1] + 50) * 100 + (e[1][2] + 50)) * 100 + (e[1][3] + 50)) * 2 + e[2]

InFlight == { e \in DOMAIN tpc : tpc[e] \in {"fill", "publish", "remove"} }

\* the worker without its is_generated test
NextPc_always_fill(generated) == "fill"

\* `if !manager.lock().unwrap().is_generated(chunk.key)`: where the worker goes next
NextPc(generated) == IF generated THEN "remove" ELSE "fill"

\* the flag raised in the shared entry while the array is still the worker's own
Publish_flag_first(store, key, data) == [store EXCEPT ![key].generated = TRUE]

\* `*manager.lock().unwrap().chunks.get_mut(&chunk.key).unwrap() = data`
Publish(store, key, data) == [store EXCEPT ![key] = data]

HasPanic(data) ==
    \E z \in Idx, y \in Idx, x \in Idx : data[z][y][x] = "Panic"

Bump(w, key) ==
    [k \in (DOMAIN w) \cup {key} |->
        IF k = key THEN (IF key \in DOMAIN w THEN w[key] + 1 ELSE 1) ELSE w[k]]

\* the query: entities With<NeedsTerrain>
TerrainBegin ==
    /\ ~panicked /\ Idle /\ "generate_terrain" \notin ran
    /\ LET q == { e \in DOMAIN entities : entities[e].needsTerrain }
       IN  IF q = {}
           THEN /\ ran' = ran \cup {"generate_terrain"}
                /\ UNCHANGED <<tpc, tlocal>>
           ELSE /\ tpc' = [e \in q |-> "check"]
                /\ tlocal' = [e \in q |-> DefaultChunk]
                /\ UNCHANGED ran
    /\ UNCHANGED <<chunks, meshes, entities, meshAssets, commands, translation, build,
                   panicked, processed, writes, skips, loadKey, unloadKey, classified, probe, locks, mpc>>
    /\ UNCHANGED playerVars

TCheck(e) ==
    /\ ~panicked /\ e \in DOMAIN tpc /\ tpc[e] = "check"
    /\ Cardinality(InFlight) < MaxWorkers
    /\ \A f \in DOMAIN tpc : tpc[f] = "check" => Rank(e) <= Rank(f)
    /\ tpc' = [tpc EXCEPT ![e] = NextPc(is_generated(chunks, entities[e].key))]
    /\ skips' = IF NextPc(is_generated(chunks, entities[e].key)) = "fill"
                THEN skips ELSE Bump(skips, entities[e].key)
    /\ UNCHANGED <<chunks, meshes, entities, meshAssets, commands, translation, ran, tlocal,
                   build, panicked, processed, writes, loadKey, unloadKey, classified, probe, locks, mpc>>
    /\ UNCHANGED playerVars

\* the fill loop over (x, z) and y, on the worker's own `data`, then data.generated = true
TFill(e) ==
    /\ ~panicked /\ e \in DOMAIN tpc /\ tpc[e] = "fill"
    /\ LET d == GenerateData(entities[e].key, build)
       IN  IF HasPanic(d)
           THEN /\ panicked' = TRUE
                /\ UNCHANGED <<tpc, tlocal>>
           ELSE /\ tlocal' = [tlocal EXCEPT ![e] = [data |-> d, generated |-> TRUE]]
                /\ tpc' = [tpc EXCEPT ![e] = "publish"]
                /\ UNCHANGED panicked
    /\ UNCHANGED <<chunks, meshes, entities, meshAssets, commands, translation, ran, build,
                   processed, writes, skips, loadKey, unloadKey, classified, probe, locks, mpc>>
    /\ UNCHANGED playerVars

TPublish(e) ==
    /\ ~panicked /\ e \in DOMAIN tpc /\ tpc[e] = "publish"
    /\ LET key == entities[e].key
       IN  IF key \notin DOMAIN chunks
           THEN /\ panicked' = TRUE
                /\ UNCHANGED <<chunks, writes, skips, tpc, tlocal>>
           ELSE /\ chunks' = Publish(chunks, key, tlocal[e])
                /\ writes' = Bump(writes, key)
                /\ tpc' = [tpc EXCEPT ![e] = "remove"]
                /\ tlocal' = [tlocal EXCEPT ![e] = DefaultChunk]
                /\ UNCHANGED <<panicked, skips>>
    /\ UNCHANGED <<meshes, entities, meshAssets, commands, translation, ran, build,
                   processed, loadKey, unloadKey, classified, probe, locks, mpc>>
    /\ UNCHANGED playerVars

\* commands.lock().unwrap().entity(entity).remove::<NeedsTerrain>()
TRemove(e) ==
    /\ ~panicked /\ e \in DOMAIN tpc /\ tpc[e] = "remove"
    /\ commands' = [commands EXCEPT !["generate_terrain"] =
                       [f \in (DOMAIN @) \cup {e} |->
                           Cmd("remove_needs_terrain", entities[f].key, 0, FALSE)]]
    /\ tpc' = [tpc EXCEPT ![e] = "done"]
    /\ UNCHANGED <<chunks, meshes, entities, meshAssets, translation, ran, tlocal, build,
                   panicked, processed, writes, skips, loadKey, unloadKey, classified, probe, locks, mpc>>
    /\ UNCHANGED playerVars

TerrainEnd ==
    /\ ~panicked /\ ~Idle
    /\ \A e \in DOMAIN tpc : tpc[e] = "done"
    /\ tpc' = [e \in {} |-> "done"]
    /\ tlocal' = [e \in {} |-> DefaultChunk]
    /\ ran' = ran \cup {"generate_terrain"}
    /\ UNCHANGED <<chunks, meshes, entities, meshAssets, commands, translation, build,
                   panicked, processed, writes, skips, loadKey, unloadKey, classified, probe, locks, mpc>>
    /\ UNCHANGED playerVars

\* What one worker leaves in the store for its chunk: the closure body from the
\* is_generated test to the assignment through get_mut
WorkerOutcome(store, key, bld) ==
    IF NextPc(is_generated(store, key)) = "fill"
    THEN Publish(store, key, [data |-> GenerateData(key, bld), generated |-> TRUE])
    ELSE store

\* does the worker for `key` abort: overflow in the fill, or unwrap of a missing key
WorkerPanics(store, key, bld) ==
    /\ NextPc(is_generated(store, key)) = "fill"
    /\ HasPanic(GenerateData(key, bld)) \/ key \notin DOMAIN store

\* The whole pass.  The workers of one pass hold pairwise different keys, so the
\* store they leave does not depend on their interleaving (SpecWorkers checks the
\* interleavings themselves).
TerrainPass(store, keys, bld) ==
    [k \in DOMAIN store |-> IF k \in keys THEN WorkerOutcome(store, k, bld)[k] ELSE store[k]]

\* the counters after every worker of the pass whose key is in `hit` has counted once
Tally(w, q, hit) ==
    [k \in (DOMAIN w) \cup hit |->
        (IF k \in DOMAIN w THEN w[k] ELSE 0)
        + Cardinality({ e \in q : entities[e].key = k /\ k \in hit })]

GenerateTerrain ==
    /\ ~panicked /\ Idle /\ "generate_terrain" \notin ran
    /\ LET q == { e \in DOMAIN entities : entities[e].needsTerrain }
           keys == { entities[e].key : e \in q }
           filled == { k \in keys : NextPc(is_generated(chunks, k)) = "fill" }
       IN  IF \E k \in keys : WorkerPanics(chunks, k, build)
           THEN /\ panicked' = TRUE
                /\ UNCHANGED <<chunks, writes, skips, commands, ran>>
           ELSE /\ chunks' = TerrainPass(chunks, keys, build)
                /\ writes' = Tally(writes, q, filled)
                /\ skips' = Tally(skips, q, keys \ filled)
                /\ commands' = [commands EXCEPT !["generate_terrain"] =
                       [e \in q |-> Cmd("remove_needs_terrain", entities[e].key, 0, FALSE)]]
                /\ ran' = ran \cup {"generate_terrain"}
                /\ UNCHANGED panicked
    /\ UNCHANGED <<meshes, entities, meshAssets, translation, tpc, tlocal, build,
                   processed, loadKey, unloadKey, classified, probe, locks, mpc>>
    /\ UNCHANGED playerVars

(***************************************************************************)
(* Mesh extractor: generate_mesh                                           *)
(***************************************************************************)
Dirs == { <<0, 1, 0>>, <<0, -1, 0>>, <<1, 0, 0>>, <<-1, 0, 0>>, <<0, 0, 1>>, <<0, 0, -1>> }

\* (0..CHUNK_SIZE).step_by(2usize.pow(lod))
StepBy(lod) == { x \in Idx : x % Pow2(lod) = 0 }

all_lod(lod) == { <<x, y, z>> : x \in StepBy(lod), y \in Idx, z \in StepBy(lod) }

\* the keys load_chunks can visit from the observer positions of the model
WorldKeys ==
    { <<x, y, z>> :
        x \in (TruncDiv(-NegCoordX, CHUNK_SIZE) - RENDER_DISTANCE)
                 .. (TruncDiv(MaxCoordX, CHUNK_SIZE) + RENDER_DISTANCE),
        y \in 0 .. (WORLD_HEIGHT - 1),
        z \in (-RENDER_DISTANCE) .. (TruncDiv(MaxCoordZ, CHUNK_SIZE) + RENDER_DISTANCE) }

\* adjacent_keys, tabulated over those keys
Adjacent == [key \in WorldKeys |-> adjacent_keys(key)]

\* the gate without its test of the adjacent keys
MeshGate_self_only(store, key) ==
    /\ key \in DOMAIN store
    /\ store[key].generated

\* the gate at the top of the closure: chunk present, generated, every adjacent key generated
MeshGate(store, key) ==
    /\ key \in DOMAIN store
    /\ store[key].generated
    /\ \A c \in Adjacent[key] : is_generated(store, c)

\* add_face looking one cell away at every tier
FaceVisible_unit_stride(store, key, local_pos, dir, lod) ==
    LET n == get_with_adjacent(store, key, VAdd(local_pos, dir))
    IN  ~full(IF n = <<>> THEN "Air" ELSE n[1])

\* add_face emits unless the neighbour at local_pos + dir * 2^lod is a full block
FaceVisible(store, key, local_pos, dir, lod) ==
    LET n == get_with_adjacent(store, key, VAdd(local_pos, VScale(dir, Pow2(lod))))
    IN  ~full(IF n = <<>> THEN "Air" ELSE n[1])

ExtractFaces(store, key, lod) ==
    { f \in all_lod(lod) \X Dirs :
        /\ ~transparent(get_unchecked(store[key], f[1]))
        /\ FaceVisible(store, key, f[1], f[2], lod) }

\* indices.extend_from_slice(&[idx + 2, idx + 1, idx, idx, idx + 3, idx + 2])
FaceIndices(idx) == <<idx + 2, idx + 1, idx, idx, idx + 3, idx + 2>>

\* the index buffer after n calls of add_face got past the early return:
\* idx = vertices.len() grows by the 4 vertices each of them pushes
RECURSIVE IndexBuffer(_)
IndexBuffer(n) ==
    IF n = 0 THEN <<>> ELSE IndexBuffer(n - 1) \o FaceIndices(4 * (n - 1))

\* what the four insert_attribute / set_indices calls leave in the mesh: the
\* faces whose quads were pushed, the lengths of the three attribute buffers,
\* and the index buffer
MeshBuffers(store, key, lod) ==
    LET faces == ExtractFaces(store, key, lod)
        quads == Cardinality(faces)
    IN  [lod |-> lod, faces |-> faces, vertices |-> 4 * quads, normals |-> 4 * quads,
         uvs |-> 4 * quads, indices |-> IndexBuffer(quads)]

\* the entities of the query (With NeedsMesh) that pass the gate
Meshable(store, ents) ==
    { e \in DOMAIN ents : ents[e].needsMesh # <<>> /\ MeshGate(store, ents[e].key) }

GenerateMesh ==
    /\ ~panicked /\ Idle /\ "generate_mesh" \notin ran
    /\ LET go == Meshable(chunks, entities)
       IN  /\ meshAssets' = [h \in DOMAIN meshAssets |->
                                IF h \in go
                                THEN <<MeshBuffers(chunks, entities[h].key,
                                                   entities[h].needsMesh[1])>>
                                ELSE meshAssets[h]]
           /\ commands' = [commands EXCEPT !["generate_mesh"] =
                              [e \in go |-> Cmd("remove_needs_mesh", entities[e].key, 0, FALSE)]]
    /\ ran' = ran \cup {"generate_mesh"}
    /\ UNCHANGED <<chunks, meshes, entities, translation, tpc, tlocal, build, panicked,
                   processed, writes, skips, loadKey, unloadKey, classified, probe, locks, mpc>>
    /\ UNCHANGED playerVars

(***************************************************************************)
(* The observer moves (the position update of move_camera, seen from the   *)
(* streaming systems: only the new translation matters to them)            *)
(***************************************************************************)
Reachable(t) ==
    { <<x, 0, z>> : x \in Max(-NegCoordX, t[1] - MaxStep) .. Min(MaxCoordX, t[1] + MaxStep),
                    z \in Max(0, t[3] - MaxStep) .. Min(MaxCoordZ, t[3] + MaxStep) }

MoveObserver ==
    /\ ~panicked /\ Idle /\ "move_camera" \notin ran
    /\ translation' \in Reachable(translation)
    /\ translation' # translation => moves < MaxMoves
    /\ moves' = IF translation' # translation THEN moves + 1 ELSE moves
    /\ ran' = ran \cup {"move_camera"}
    /\ UNCHANGED <<chunks, meshes, entities, meshAssets, commands, tpc, tlocal, build,
                   panicked, processed, writes, skips, loadKey, unloadKey, classified, probe, locks, mpc>>
    /\ UNCHANGED boxVars

(***************************************************************************)
(* End of the stage: the command buffers are applied, one system's buffer  *)
(* after another's, in an order the schedule does not fix                  *)
(***************************************************************************)
Spawned(c) ==
    [key |-> c.key, needsTerrain |-> c.terrain, needsMesh |-> <<c.lod>>]

\* one system's buffer applied to the world
ApplyQueue(w, q) ==
    LET despawned == { e \in DOMAIN q : q[e].op = "despawn" }
        spawned == { e \in DOMAIN q : q[e].op = "spawn" }
        edit(e) ==
            IF e \notin DOMAIN q THEN w.ents[e]
            ELSE CASE q[e].op = "insert_needs_mesh" -> [w.ents[e] EXCEPT !.needsMesh = <<q[e].lod>>]
                   [] q[e].op = "remove_needs_mesh" -> [w.ents[e] EXCEPT !.needsMesh = <<>>]
                   [] q[e].op = "remove_needs_terrain" -> [w.ents[e] EXCEPT !.needsTerrain = FALSE]
                   [] OTHER -> w.ents[e]
        live == ((DOMAIN w.ents) \ despawned) \cup spawned
    IN  [ents |-> [e \in live |-> IF e \in DOMAIN w.ents THEN edit(e) ELSE Spawned(q[e])],
         \* the strong handle goes with the entity, and the asset with the handle
         assets |-> [h \in (DOMAIN w.assets) \ despawned |-> w.assets[h]],
         \* Insert on an entity that no longer exists aborts; Remove and Despawn do not
         panicked |-> w.panicked \/ \E e \in DOMAIN q : q[e].op = "insert_needs_mesh"
                                                          /\ e \notin DOMAIN w.ents]

RECURSIVE ApplyAll(_, _, _)
ApplyAll(w, cmds, order) ==
    IF order = <<>> THEN w
    ELSE ApplyAll(ApplyQueue(w, cmds[Head(order)]), cmds, Tail(order))

\* the orders in which the non-empty buffers can be applied
Orders(cmds) ==
    LET busy == { s \in CommandSystems : DOMAIN cmds[s] # {} }
    IN  { o \in [1 .. Cardinality(busy) -> busy] :
            \A i, j \in DOMAIN o : i # j => o[i] # o[j] }

ApplyBuffers ==
    /\ ~panicked /\ Idle /\ ran = Systems
    /\ \E order \in Orders(commands) :
         LET w == ApplyAll([ents |-> entities, assets |-> meshAssets, panicked |-> FALSE],
                           commands, order)
         IN  /\ entities' = w.ents
             /\ meshAssets' = w.assets
             /\ panicked' = w.panicked
    /\ commands' = NoCommands
    /\ ran' = {}
    /\ loadKey' = <<>>
    /\ unloadKey' = <<>>
    /\ UNCHANGED <<chunks, meshes, translation, tpc, tlocal, build, processed, writes, skips,
                   classified, probe, locks, mpc>>
    /\ UNCHANGED playerVars

(***************************************************************************)
(* Specification of the streaming tick                                     *)
(***************************************************************************)
NoBox == [center |-> <<0, 0, 0>>, half_extents |-> <<0, 0, 0>>]

\* no column is being filled
NoColumn == [x |-> 0, z |-> 0, key_y |-> 0, height |-> 0, y |-> 0, blocks |-> <<>>]

\* every mutex free
NoLocks == [manager |-> {}, commands |-> {}, meshes |-> {}]

\* no worker of generate_mesh
NoWorkers == [e \in {} |-> "done"]

\* no lookup is being made
NoProbe == [fn |-> "none", args |-> <<>>, out |-> <<>>]

StreamInit ==
    /\ meshes = [k \in {} |-> [entity |-> <<k, 0>>, lod |-> 0]]
    /\ entities = [e \in {} |-> [key |-> e, needsTerrain |-> FALSE, needsMesh |-> <<>>]]
    /\ meshAssets = [h \in {} |-> <<>>]
    /\ commands = NoCommands
    /\ ran = {}
    /\ tpc = [e \in {} |-> "done"]
    /\ tlocal = [e \in {} |-> DefaultChunk]
    /\ panicked = FALSE
    /\ processed = {}
    /\ writes = [k \in {} |-> 0]
    /\ skips = [k \in {} |-> 0]
    /\ loadKey = <<>>
    /\ unloadKey = <<>>
    /\ moves = 0
    /\ probe = NoProbe
    /\ locks = NoLocks
    /\ mpc = NoWorkers

BoxInit ==
    /\ bounding = NoBox
    /\ velocity = <<0, 0, 0>>
    /\ velocityMask = <<1, 1, 1>>
    /\ delta = 1
    /\ prevVelocity = <<0, 0, 0>>

Init ==
    /\ chunks = [k \in {} |-> DefaultChunk]
    /\ translation = <<0, 0, 0>>
    /\ build \in Builds
    /\ classified = NoColumn
    /\ StreamInit
    /\ BoxInit

TerrainWorker == \E e \in DOMAIN tpc : TCheck(e) \/ TFill(e) \/ TPublish(e) \/ TRemove(e)

Next ==
    \/ LoadChunks
    \/ UnloadChunks
    \/ GenerateTerrain
    \/ GenerateMesh
    \/ MoveObserver
    \/ ApplyBuffers

Spec == Init /\ [][Next]_vars

(***************************************************************************)
(* Properties of the streaming tick                                        *)
(***************************************************************************)
\* the keys within render range of player_key on x and z, and within the world height
InRange(player_key) ==
    { <<player_key[1] + i, j, player_key[3] + k>> :
        i \in (-RENDER_DISTANCE) .. RENDER_DISTANCE,
        j \in 0 .. (WORLD_HEIGHT - 1),
        k \in (-RENDER_DISTANCE) .. RENDER_DISTANCE }

IsLoadStep == "load_chunks" \notin ran /\ "load_chunks" \in ran'

IsTerrainStep == "generate_terrain" \notin ran /\ "generate_terrain" \in ran'

IsMeshStep == "generate_mesh" \notin ran /\ "generate_mesh" \in ran'

IsApplyStep == ran = Systems /\ ran' = {}

\* C1: a key no load_chunks pass has processed has no entry in the store; the
\* first pass that finds the key within render range and world height leaves
\* an entry for it with generated = false and every voxel Air.
C1_LoadCreatesBlankEntry ==
    [][ /\ \A k \in DOMAIN chunks : k \in processed
        /\ \A k \in DOMAIN chunks' : k \in processed'
        /\ IsLoadStep =>
             \A k \in InRange(PlayerKey(translation)) \ processed :
                 /\ ~is_loaded(chunks, k) /\ ~is_generated(chunks, k)
                 /\ is_loaded(chunks', k)
                 /\ chunks'[k].generated = FALSE
                 /\ \A p \in Idx \X Idx \X Idx : get_unchecked(chunks'[k], p) = "Air" ]_vars

\* a pass has just created blank entries while other keys of the world are still unprocessed
C1_Witness ==
    /\ "load_chunks" \in ran
    /\ loadKey # <<>>
    /\ \E k \in InRange(loadKey[1]) : is_loaded(chunks, k) /\ chunks[k] = DefaultChunk
    /\ \E k \in WorldKeys : k \notin processed /\ ~is_loaded(chunks, k)

\* C2: an entry never leaves the store; once generated is true the entry never
\* changes again; load_chunks leaves every existing entry as it is; no voxel
\* array is stored more than once.
C2_GeneratedIsFinal ==
    [][ \A k \in DOMAIN chunks :
          /\ k \in DOMAIN chunks'
          /\ chunks[k].generated => chunks'[k] = chunks[k]
          /\ IsLoadStep => chunks'[k] = chunks[k]
          /\ k \in DOMAIN writes' => writes'[k] <= 1 ]_vars

\* after the observer has moved, a load_chunks pass has run over a chunk that an
\* earlier tick generated, and the chunk is still generated and stored once
C2_Witness ==
    /\ moves > 0
    /\ "load_chunks" \in ran /\ "generate_terrain" \notin ran
    /\ loadKey # <<>>
    /\ \E k \in InRange(loadKey[1]) :
           /\ is_generated(chunks, k)
           /\ chunks[k].data # DefaultData
           /\ k \in DOMAIN writes /\ writes[k] = 1

\* C3: a generate_terrain pass over an entity whose chunk is already generated
\* leaves that chunk's entry as it is and stores nothing for it, still queues
\* the removal of NeedsTerrain, and a second pass over the same keys leaves the
\* store of the first.
C3_TerrainIdempotent ==
    [][ IsTerrainStep =>
          LET q == { e \in DOMAIN entities : entities[e].needsTerrain }
              keys == { entities[e].key : e \in q }
          IN  /\ \A e \in q :
                    is_generated(chunks, entities[e].key) =>
                        /\ chunks'[entities[e].key] = chunks[entities[e].key]
                        /\ writes'[entities[e].key] = writes[entities[e].key]
                        /\ e \in DOMAIN commands'["generate_terrain"]
              /\ TerrainPass(chunks', keys, build) = chunks' ]_vars

\* a worker has found its chunk generated by an earlier pass and left it alone
C3_Witness ==
    \E k \in DOMAIN skips :
        /\ skips[k] >= 1
        /\ is_generated(chunks, k)
        /\ chunks[k].data # DefaultData
        /\ writes[k] = 1

\* C4: in every state, between any two steps of the parallel workers, a chunk
\* whose generated flag is true holds the complete array the fill loop computes.
C4_PublicationAtomic ==
    \A k \in DOMAIN chunks :
        chunks[k].generated => chunks[k].data = GenerateData(k, build)

\* one worker has published while another still holds its filled array
C4_Witness ==
    \E e \in DOMAIN tpc, f \in DOMAIN tpc :
        /\ e # f
        /\ tpc[e] \in {"remove", "done"}
        /\ is_generated(chunks, entities[e].key)
        /\ chunks[entities[e].key].data # DefaultData
        /\ tpc[f] = "publish"
        /\ ~is_generated(chunks, entities[f].key)

\* chunk loaded, generated, and every key of adjacent_keys generated
Ready(store, key) ==
    /\ is_loaded(store, key)
    /\ store[key].generated
    /\ \A c \in adjacent_keys(key) : is_loaded(store, c) /\ store[c].generated

\* C5: a generate_mesh pass changes neither the store nor the RenderEntry map
\* nor any component; for an entity whose chunk is not loaded, not generated or
\* has an adjacent key that is not generated it writes no buffer and queues no
\* removal of NeedsMesh; every buffer it writes belongs to a chunk that is
\* generated with all its adjacent keys generated.
C5_AdjacencyGate ==
    [][ IsMeshStep =>
          /\ chunks' = chunks /\ meshes' = meshes /\ entities' = entities
          /\ \A e \in DOMAIN entities :
                (entities[e].needsMesh # <<>> /\ ~Ready(chunks, entities[e].key)) =>
                    /\ meshAssets'[e] = meshAssets[e]
                    /\ e \notin DOMAIN commands'["generate_mesh"]
          /\ \A h \in DOMAIN meshAssets :
                meshAssets'[h] # meshAssets[h] =>
                    /\ h \in DOMAIN entities
                    /\ Ready(chunks, entities[h].key) ]_vars

\* the pass has run on a store nothing has touched since: it wrote one chunk's
\* buffers and left alone a generated chunk with an ungenerated adjacent key
C5_Witness ==
    /\ "generate_mesh" \in ran
    /\ "generate_terrain" \notin ran /\ "load_chunks" \notin ran
    /\ DOMAIN commands["generate_mesh"] # {}
    /\ \E e \in DOMAIN entities :
           /\ entities[e].needsMesh # <<>>
           /\ is_generated(chunks, entities[e].key)
           /\ ~Ready(chunks, entities[e].key)
           /\ meshAssets[e] = <<>>
           /\ e \notin DOMAIN commands["generate_mesh"]

\* the RenderEntry map holds exactly the valid keys within render range of player_key
Boundary(map, player_key) ==
    /\ \A k \in InRange(player_key) : k \in DOMAIN map
    /\ \A k \in DOMAIN map :
          /\ Abs(k[1] - player_key[1]) < RENDER_DISTANCE + 1
          /\ Abs(k[3] - player_key[3]) < RENDER_DISTANCE + 1

\* C6: when the commands of a tick are applied, the RenderEntry map holds every
\* valid key within render range of the observer's chunk key and no key at
\* RENDER_DISTANCE + 1 or more; the observer's chunk key being the one
\* load_chunks computed, the one unload_chunks computed, or the one of the
\* observer's position at the end of the tick.
C6_StreamingBoundary ==
    [][ (IsApplyStep /\ ~panicked') =>
          \E pk \in {loadKey[1], unloadKey[1], PlayerKey(translation)} :
              Boundary(meshes', pk) ]_vars

\* Lemma: in a tick where load_chunks and unload_chunks computed the same
\* player_key, the boundary holds relative to that key once the commands are
\* applied.
StreamingBoundarySameKey ==
    [][ (/\ IsApplyStep /\ ~panicked'
         /\ loadKey # <<>> /\ unloadKey # <<>> /\ loadKey = unloadKey)
        => Boundary(meshes', loadKey[1]) ]_vars

(***************************************************************************)
(* The same tick with generate_terrain's workers interleaved, the observer *)
(* standing still                                                          *)
(***************************************************************************)
StandStill ==
    /\ ~panicked /\ Idle /\ "move_camera" \notin ran
    /\ ran' = ran \cup {"move_camera"}
    /\ UNCHANGED <<chunks, meshes, entities, meshAssets, commands, translation, tpc, tlocal,
                   build, panicked, processed, writes, skips, loadKey, unloadKey, classified, probe, locks, mpc>>
    /\ UNCHANGED playerVars

NextWorkers ==
    \/ LoadChunks
    \/ UnloadChunks
    \/ TerrainBegin
    \/ TerrainWorker
    \/ TerrainEnd
    \/ GenerateMesh
    \/ StandStill
    \/ ApplyBuffers

SpecWorkers == Init /\ [][NextWorkers]_vars

(***************************************************************************)
(* The fill loop of generate_terrain on one column, one voxel per step     *)
(***************************************************************************)
Heights == 0 .. (CHUNK_SIZE * WORLD_HEIGHT)

\* y as usize + chunk.key.y as usize * CHUNK_SIZE
YReal(y, key_y) == y + key_y * CHUNK_SIZE

InitTerrain ==
    /\ classified \in [x : Idx, z : Idx, key_y : 0 .. (WORLD_HEIGHT - 1),
                       height : Heights, y : {0}, blocks : {<<>>}]
    /\ build \in Builds
    /\ chunks = [k \in {} |-> DefaultChunk]
    /\ translation = <<0, 0, 0>>
    /\ StreamInit
    /\ BoxInit

\* one iteration of `for y in 0..CHUNK_SIZE`: data.data[z][y][x] = if .. else ..
ClassifyVoxel ==
    /\ ~panicked
    /\ classified.y < CHUNK_SIZE
    /\ LET b == ClassifyBlock(YReal(classified.y, classified.key_y), classified.height, build)
       IN  IF b = "Panic"
           THEN /\ panicked' = TRUE
                /\ UNCHANGED classified
           ELSE /\ classified' = [classified EXCEPT !.y = @ + 1, !.blocks = Append(@, b)]
                /\ UNCHANGED panicked
    /\ UNCHANGED <<chunks, meshes, entities, meshAssets, commands, translation, ran, tpc,
                   tlocal, build, processed, writes, skips, loadKey, unloadKey, probe, locks, mpc>>
    /\ UNCHANGED playerVars

NextTerrain == ClassifyVoxel

SpecTerrain == InitTerrain /\ [][NextTerrain]_vars

\* the block the classification rule names for world height y_real under surface height
Expected(y_real, height) ==
    IF y_real > height THEN "Air"
    ELSE IF y_real = height THEN "Grass"
    ELSE IF height - DIRT_DEPTH < y_real THEN "Dirt"
    ELSE "Stone"

\* C10: for every surface height in 0 .. CHUNK_SIZE * WORLD_HEIGHT and every
\* voxel of the column, the fill loop stores Air above the surface, Grass at
\* it, Dirt strictly between height - 3 and height, Stone otherwise, and the
\* computation does not abort.
C10_TerrainClassification ==
    /\ ~panicked
    /\ \A i \in 1 .. Len(classified.blocks) :
          classified.blocks[i] = Expected(YReal(i - 1, classified.key_y), classified.height)

(***************************************************************************)
(* collision and move_camera, in fixed point, on stores the streaming code *)
(* builds                                                                  *)
(***************************************************************************)
\* the store after load_chunks has run with the observer at player_key
StoreLoaded(store, player_key) == InsertMissing(store, LoadKeys(player_key))

\* the store after a generate_terrain pass over every loaded chunk
StoreGenerated(store) == TerrainPass(store, DOMAIN store, "release")

\* nothing loaded; loaded around key 0; generated; loaded around key 1; generated
Stores ==
    LET s0 == [k \in {} |-> DefaultChunk]
        s1 == StoreLoaded(s0, <<0, 0, 0>>)
        s2 == StoreGenerated(s1)
        s3 == StoreLoaded(s2, <<1, 0, 0>>)
        s4 == StoreGenerated(s3)
    IN  {s0, s1, s2, s3, s4}

\* the box centres drawn: from the middle of the loaded world to one step from
\* its top and from its last loaded row of chunks on z
CenterLo ==
    <<Scale + 1,
      Scale * (CHUNK_SIZE * WORLD_HEIGHT - 2) + 1,
      Scale * (CHUNK_SIZE * (RENDER_DISTANCE + 1) - 2) + 1>>

CenterHi ==
    <<Scale * 3 - 2,
      Scale * CHUNK_SIZE * WORLD_HEIGHT - 2,
      Scale * CHUNK_SIZE * (RENDER_DISTANCE + 1) - 2>>

Centers ==
    { <<x, y, z>> : x \in CenterLo[1] .. CenterHi[1],
                    y \in CenterLo[2] .. CenterHi[2],
                    z \in CenterLo[3] .. CenterHi[3] }

Velocities ==
    { <<x, y, z>> : x \in (-MaxVel) .. MaxVel, y \in (-MaxVel) .. MaxVel,
                    z \in (-MaxVel) .. MaxVel }

\* Vec3::new(0.0, 0.6, 0.0), in fixed point
EyeOffset == <<0, (6 * Scale) \div 10, 0>>

\* BoundingBox::points(): the array as the code lists it
points(box) ==
    LET c == box.center
        e == box.half_extents
    IN  << VSub(c, e),
           VAdd(c, << e[1], -e[2], -e[3]>>),
           VAdd(c, <<-e[1], -e[2],  e[3]>>),
           VAdd(c, << e[1], -e[2],  e[3]>>),
           VAdd(c, << e[1],  e[2], -e[3]>>),
           VAdd(c, <<-e[1],  e[2],  e[3]>>),
           VAdd(c, << e[1],  e[2],  e[3]>>),
           VAdd(c, e) >>

\* .floor().as_ivec3() of a fixed point position: the voxel it lies in
Cell(p) == <<DivEuclid(p[1], Scale), DivEuclid(p[2], Scale), DivEuclid(p[3], Scale)>>

\* the closure with a missing chunk left open: `else { false }`
PointBlocked_unloaded_free(store, cell) ==
    LET k == get_keys(cell)
    IN  IF k.key \in DOMAIN store
        THEN full(get_unchecked(store[k.key], k.pos))
        ELSE FALSE

\* the closure inside any(): `if let Some(c) = chunks.get(..) { c.get_unchecked(..).full() } else { true }`
PointBlocked(store, cell) ==
    LET k == get_keys(cell)
    IN  IF k.key \in DOMAIN store
        THEN full(get_unchecked(store[k.key], k.pos))
        ELSE TRUE

\* the response with the velocity left as it was
Respond_mask_only(st, dir) ==
    [velocity |-> st.velocity, mask |-> VMul(st.mask, VSub(<<1, 1, 1>>, dir))]

\* the response with the mask left as it was
Respond_velocity_only(st, dir) ==
    [velocity |-> VSub(st.velocity, VMul(st.velocity, dir)), mask |-> st.mask]

\* velocity.0 -= velocity.0*dir; mask.0 *= Vec3::ONE - dir
Respond(st, dir) ==
    [velocity |-> VSub(st.velocity, VMul(st.velocity, dir)),
     mask |-> VMul(st.mask, VSub(<<1, 1, 1>>, dir))]

\* the closure check_axis on st = (velocity, mask)
check_axis(store, box, dt, st, dir) ==
    IF \E i \in 1 .. 8 :
           PointBlocked(store, Cell(VAdd(points(box)[i], VScale(VMul(st.velocity, dir), dt))))
    THEN Respond(st, dir)
    ELSE st

\* the probes with the combined directions first
ProbeOrder_pairs_first ==
    << <<1, 0, 1>>, <<1, 1, 0>>, <<0, 1, 1>>, <<1, 0, 0>>, <<0, 0, 1>>, <<0, 1, 0>> >>

\* X, Z, Y, X + Z, X + Y, Y + Z
ProbeOrder ==
    << <<1, 0, 0>>, <<0, 0, 1>>, <<0, 1, 0>>, <<1, 0, 1>>, <<1, 1, 0>>, <<0, 1, 1>> >>

\* (velocity, mask) after mask.0 = Vec3::ONE and the first n calls of check_axis
RECURSIVE Resolve(_, _, _, _, _)
Resolve(store, box, vel, dt, n) ==
    IF n = 0 THEN [velocity |-> vel, mask |-> <<1, 1, 1>>]
    ELSE check_axis(store, box, dt, Resolve(store, box, vel, dt, n - 1), ProbeOrder[n])

InitCollision ==
    /\ chunks \in Stores
    /\ bounding \in [center : Centers, half_extents : {<<HalfExtent, HalfExtent, HalfExtent>>}]
    /\ translation = VAdd(bounding.center, EyeOffset)
    /\ velocity \in Velocities
    /\ velocityMask \in {<<1, 1, 1>>, <<0, 0, 0>>}
    /\ delta \in 1 .. MaxDelta
    /\ prevVelocity = velocity
    /\ build = "release"
    /\ classified = NoColumn
    /\ StreamInit

Collision ==
    /\ ran = {}
    /\ LET r == Resolve(chunks, bounding, velocity, delta, Len(ProbeOrder))
       IN  /\ velocity' = r.velocity
           /\ velocityMask' = r.mask
    /\ prevVelocity' = velocity
    /\ ran' = {"collision"}
    /\ UNCHANGED <<chunks, meshes, entities, meshAssets, commands, translation, tpc, tlocal,
                   build, panicked, processed, writes, skips, loadKey, unloadKey, classified, probe, locks, mpc>>
    /\ UNCHANGED <<bounding, delta, moves>>

\* velocity.0 *= 0.95, in fixed point
Damp(v) == <<TruncDiv(v[1] * 95, 100), TruncDiv(v[2] * 95, 100), TruncDiv(v[3] * 95, 100)>>

Keys == {"none", "W", "S", "A", "D", "Space"}

\* relative_offset for the key held, the camera looking down -z
RelativeOffset(key) ==
    CASE key = "W" -> <<0, 0, -1>>
      [] key = "S" -> <<0, 0, 1>>
      [] key = "A" -> <<-1, 0, 0>>
      [] key = "D" -> <<1, 0, 0>>
      [] OTHER -> <<0, 0, 0>>

\* SPEED and GRAVITY (0.5), velocity.y of a jump (40.0), in fixed point
SPEED == Scale \div 2

GRAVITY == Scale \div 2

JumpSpeed == 40 * Scale

MoveCamera ==
    /\ ran = {"collision"}
    /\ \E key \in Keys :
         LET t == VAdd(translation, VScale(VMul(velocity, velocityMask), delta))
             v == VAdd(Damp(velocity),
                       VAdd(VScale(RelativeOffset(key), SPEED), <<0, -GRAVITY, 0>>))
         IN  /\ translation' = t
             /\ bounding' = [bounding EXCEPT !.center = VSub(t, EyeOffset)]
             /\ velocity' = IF key = "Space" THEN <<v[1], JumpSpeed, v[3]>> ELSE v
    /\ ran' = ran \cup {"move_camera"}
    /\ UNCHANGED <<chunks, meshes, entities, meshAssets, commands, tpc, tlocal,
                   build, panicked, processed, writes, skips, loadKey, unloadKey, classified, probe, locks, mpc>>
    /\ UNCHANGED <<velocityMask, delta, prevVelocity, moves>>

NextCollision ==
    \/ Collision
    \/ MoveCamera

SpecCollision == InitCollision /\ [][NextCollision]_vars

(***************************************************************************)
(* Properties of the collision resolver                                    *)
(***************************************************************************)
\* the 8 corners of the box: center +- half_extents on every axis
Corners(box) ==
    { <<box.center[1] + sx * box.half_extents[1],
        box.center[2] + sy * box.half_extents[2],
        box.center[3] + sz * box.half_extents[3]>> : sx \in {-1, 1}, sy \in {-1, 1}, sz \in {-1, 1} }

\* the voxel is a full block of a chunk the store holds
InFull(store, cell) ==
    /\ is_loaded(store, get_keys(cell).key)
    /\ full(get_unchecked(store[get_keys(cell).key], get_keys(cell).pos))

\* the voxel belongs to a chunk key the store has no entry for
Unloaded(store, cell) == ~is_loaded(store, get_keys(cell).key)

\* Lemma (an invariant of Spec): the chunks of one column of keys are loaded
\* together and generated together, so a store holds whole columns
ColumnsUniform ==
    \A k \in WorldKeys, j \in WorldKeys :
        (k[1] = j[1] /\ k[3] = j[3]) =>
            /\ is_loaded(chunks, k) = is_loaded(chunks, j)
            /\ is_generated(chunks, k) = is_generated(chunks, j)

\* every corner of the box lies in a non-full cell of a loaded chunk
StartFree ==
    \A c \in Corners(bounding) :
        ~InFull(chunks, Cell(c)) /\ ~Unloaded(chunks, Cell(c))

Collided == ran = {"collision"}

\* C7: when the corners start in non-full cells of loaded chunks, after
\* collision no corner advanced by velocity * velocityMask * delta lies in a
\* full voxel or in an unloaded chunk.
C7_NoPenetration ==
    (Collided /\ StartFree) =>
        \A c \in Corners(bounding) :
            LET cell == Cell(VAdd(c, VScale(VMul(velocity, velocityMask), delta)))
            IN  ~InFull(chunks, cell) /\ ~Unloaded(chunks, cell)

Axis(a) == [i \in 1 .. 3 |-> IF i = a THEN 1 ELSE 0]

\* C8: for each single axis, if advancing by the velocity component along that
\* axis alone puts a corner of the box in a full voxel, then after collision
\* that velocity component is 0 and that mask component is 0.
C8_SingleAxisBlocked ==
    Collided =>
        \A a \in 1 .. 3 :
            (\E c \in Corners(bounding) :
                 InFull(chunks, Cell(VAdd(c, VScale(VMul(prevVelocity, Axis(a)), delta)))))
            => (velocity[a] = 0 /\ velocityMask[a] = 0)

\* a box that started free was moving down onto a full voxel and has been stopped on y
C8_Witness ==
    /\ Collided /\ StartFree
    /\ prevVelocity[2] < 0
    /\ \E c \in Corners(bounding) :
           InFull(chunks, Cell(VAdd(c, VScale(VMul(prevVelocity, Axis(2)), delta))))
    /\ velocity[2] = 0 /\ velocityMask[2] = 0

\* C9: for every probe direction, in the order the probes run, if a corner's
\* prospective cell along that direction belongs to a chunk key with no entry
\* in the store, then after collision the velocity and mask components along
\* the direction are 0.
C9_UnloadedIsSolid ==
    Collided =>
        \A i \in 1 .. Len(ProbeOrder) :
            LET dir == ProbeOrder[i]
                before == Resolve(chunks, bounding, prevVelocity, delta, i - 1)
            IN  (\E c \in Corners(bounding) :
                     Unloaded(chunks, Cell(VAdd(c, VScale(VMul(before.velocity, dir), delta)))))
                => \A a \in 1 .. 3 :
                       dir[a] = 1 => (velocity[a] = 0 /\ velocityMask[a] = 0)

\* a box that started free was stopped on y by the key above the world, whose
\* y is outside 0 .. WORLD_HEIGHT - 1, and on z by a key load_chunks never visited
C9_Witness ==
    /\ Collided /\ StartFree
    /\ prevVelocity[2] > 0 /\ prevVelocity[3] > 0
    /\ \E c \in Corners(bounding) :
           LET k == get_keys(Cell(VAdd(c, VScale(VMul(prevVelocity, Axis(2)), delta)))).key
           IN  ~in_world_range(k) /\ ~is_loaded(chunks, k)
    /\ \E c \in Corners(bounding) :
           LET k == get_keys(Cell(VAdd(c, VScale(VMul(prevVelocity, Axis(3)), delta)))).key
           IN  in_world_range(k) /\ ~is_loaded(chunks, k)
    /\ velocity[2] = 0 /\ velocityMask[2] = 0
    /\ velocity[3] = 0 /\ velocityMask[3] = 0

(***************************************************************************)
(* generate_mesh on worlds of several height fields                        *)
(***************************************************************************)
\* The noise field is an input (Res<Noise>): here a ramp a + b * x + c * z,
\* cut to the range 0 .. CHUNK_SIZE * WORLD_HEIGHT the cast to usize leaves
Ramps == Heights \X ((-MaxSlope) .. MaxSlope) \X ((-MaxSlope) .. MaxSlope)

RampHeight(r, wx, wz) ==
    Max(0, Min(CHUNK_SIZE * WORLD_HEIGHT, r[1] + r[2] * wx + r[3] * wz))

\* the array the fill loop leaves in `data` when the noise field is the ramp r
GenerateDataOf(r, key, bld) ==
    [z \in Idx |-> [y \in Idx |-> [x \in Idx |->
        ClassifyBlock(y + key[2] * CHUNK_SIZE,
                      RampHeight(r, key[1] * CHUNK_SIZE + x, key[3] * CHUNK_SIZE + z),
                      bld)]]]

\* the store after a generate_terrain pass over every loaded chunk, noise field r
StoreGeneratedOf(r, store) ==
    [k \in DOMAIN store |->
        IF NextPc(is_generated(store, k)) = "fill"
        THEN [data |-> GenerateDataOf(r, k, "release"), generated |-> TRUE]
        ELSE store[k]]

\* the RenderEntry map and the entities load_chunks leaves for the observer at
\* player_key once its spawns are applied and no mesh has been extracted yet
EntriesAround(player_key) ==
    [k \in LoadKeys(player_key) |-> [entity |-> <<k, 0>>, lod |-> LodOf(k, player_key)]]

EntitiesAround(store, player_key) ==
    [e \in { <<k, 0>> : k \in LoadKeys(player_key) } |->
        [key |-> e[1], needsTerrain |-> ~is_generated(store, e[1]),
         needsMesh |-> <<LodOf(e[1], player_key)>>]]

\* Two worlds the streaming tick reaches with generate_mesh running before
\* generate_terrain: the observer still at key 0 with its surroundings
\* generated, and the observer moved to key 1 in the tick of the generation,
\* the new column loaded and not generated yet
MeshWorlds(r) ==
    LET s0 == [k \in {} |-> DefaultChunk]
        k0 == <<0, 0, 0>>
        k1 == <<1, 0, 0>>
        sA == StoreGeneratedOf(r, StoreLoaded(s0, k0))
        sB == StoreLoaded(sA, k1)
    IN  { [store |-> sA, pk |-> k0, at |-> <<0, 0, 0>>],
          [store |-> sB, pk |-> k1, at |-> <<CHUNK_SIZE, 0, 0>>] }

InitMesh ==
    /\ \E r \in Ramps : \E w \in MeshWorlds(r) :
          /\ chunks = w.store
          /\ translation = w.at
          /\ meshes = EntriesAround(w.pk)
          /\ entities = EntitiesAround(w.store, w.pk)
          /\ meshAssets = [h \in { <<k, 0>> : k \in LoadKeys(w.pk) } |-> <<>>]
    /\ commands = NoCommands
    /\ ran = {}
    /\ tpc = [e \in {} |-> "done"]
    /\ tlocal = [e \in {} |-> DefaultChunk]
    /\ panicked = FALSE
    /\ processed = DOMAIN chunks
    /\ writes = [k \in { j \in DOMAIN chunks : chunks[j].generated } |-> 1]
    /\ skips = [k \in {} |-> 0]
    /\ loadKey = <<>>
    /\ unloadKey = <<>>
    /\ moves = IF translation = <<0, 0, 0>> THEN 0 ELSE 1
    /\ probe = NoProbe
    /\ locks = NoLocks
    /\ mpc = NoWorkers
    /\ build = "release"
    /\ classified = NoColumn
    /\ BoxInit

NextMesh == GenerateMesh

SpecMesh == InitMesh /\ [][NextMesh]_vars

(***************************************************************************)
(* Properties of the mesh extractor                                        *)
(***************************************************************************)
\* the number of quads an extraction of the chunk at tier lod emits
Quads(store, key, lod) == Cardinality(MeshBuffers(store, key, lod).faces)

\* C11: for every generated chunk whose adjacent keys are all generated and
\* every tier l with l + 1 not above floor(log2(CHUNK_SIZE)), the extraction
\* at tier l + 1 emits no more quads than the extraction at tier l.
C11_LodMonotone ==
    \A k \in DOMAIN chunks :
        Ready(chunks, k) =>
            \A l \in 0 .. (Log2Floor(CHUNK_SIZE) - 1) :
                Quads(chunks, k, l + 1) <= Quads(chunks, k, l)

\* the voxels an extraction at tier lod visits: x and z on the stride 2^lod
Visited(lod) ==
    { p \in Idx \X Idx \X Idx : p[1] % Pow2(lod) = 0 /\ p[3] % Pow2(lod) = 0 }

\* the neighbour of local voxel p of chunk key, 2^lod cells away along dir, as
\* a global voxel position
NeighbourCell(key, p, dir, lod) ==
    [a \in 1 .. 3 |-> key[a] * CHUNK_SIZE + p[a] + dir[a] * Pow2(lod)]

\* that neighbour resolves (its chunk is loaded and generated) to a full block
NeighbourFull(store, key, p, dir, lod) ==
    \E k \in DOMAIN store :
        /\ store[k].generated
        /\ \A a \in 1 .. 3 :
              /\ k[a] * CHUNK_SIZE <= NeighbourCell(key, p, dir, lod)[a]
              /\ NeighbourCell(key, p, dir, lod)[a] < (k[a] + 1) * CHUNK_SIZE
        /\ store[k].data[NeighbourCell(key, p, dir, lod)[3] - k[3] * CHUNK_SIZE]
                        [NeighbourCell(key, p, dir, lod)[2] - k[2] * CHUNK_SIZE]
                        [NeighbourCell(key, p, dir, lod)[1] - k[1] * CHUNK_SIZE] # "Air"

\* the faces the culling rule names for the chunk at tier lod
ExpectedFaces(store, key, lod) ==
    { f \in Visited(lod) \X Dirs :
        /\ store[key].data[f[1][3]][f[1][2]][f[1][1]] # "Air"
        /\ ~NeighbourFull(store, key, f[1], f[2], lod) }

\* the buffers hold one quad per face: 4 vertices, 4 normals, 4 texture
\* coordinates and 6 indices into the 4 vertices of the same quad
WellFormed(b) ==
    LET n == Cardinality(b.faces)
    IN  /\ b.vertices = 4 * n /\ b.normals = 4 * n /\ b.uvs = 4 * n
        /\ Len(b.indices) = 6 * n
        /\ \A q \in 0 .. (n - 1) : \A j \in 1 .. 6 :
              b.indices[6 * q + j] \in (4 * q) .. (4 * q + 3)

\* C12: a generate_mesh pass leaves, for every entity it extracts, one quad
\* for each visited non-transparent voxel and direction whose neighbour
\* 2^lod cells away is not a resolved full block, and no other quad; each
\* quad is 4 vertices, 4 normals, 4 texture coordinates and 6 indices into its
\* own vertices, so a voxel with 6 such neighbours gives 6 quads, 24 vertices
\* and 36 indices.
C12_FaceCulling ==
    [][ IsMeshStep =>
          \A e \in DOMAIN entities :
              (entities[e].needsMesh # <<>> /\ Ready(chunks, entities[e].key)) =>
                  /\ meshAssets'[e] # <<>>
                  /\ meshAssets'[e][1].lod = entities[e].needsMesh[1]
                  /\ meshAssets'[e][1].faces =
                         ExpectedFaces(chunks, entities[e].key, entities[e].needsMesh[1])
                  /\ WellFormed(meshAssets'[e][1]) ]_vars

\* a pass has extracted a chunk at tier 1: a face is kept because its neighbour
\* does not resolve (below the world), a face is culled by a full block two
\* cells away, and a face is kept although the block one cell away is full
C12_Witness ==
    /\ "generate_mesh" \in ran
    /\ \E e \in DOMAIN entities :
          /\ meshAssets[e] # <<>>
          /\ meshAssets[e][1].lod = 1
          /\ entities[e].key[2] = 0
          /\ <<<<0, 0, 0>>, <<0, -1, 0>>>> \in meshAssets[e][1].faces
          /\ \E f \in Visited(1) \X Dirs :
                /\ chunks[entities[e].key].data[f[1][3]][f[1][2]][f[1][1]] # "Air"
                /\ f \notin meshAssets[e][1].faces
                /\ NeighbourFull(chunks, entities[e].key, f[1], f[2], 1)
          /\ \E f \in meshAssets[e][1].faces :
                NeighbourFull(chunks, entities[e].key, f[1], f[2], 0)

(***************************************************************************)
(* The lookup functions of ChunkManager, called on their own               *)
(***************************************************************************)
\* the global voxel positions get_keys is called with
Positions ==
    { <<x, y, z>> : x \in (-MaxPos) .. MaxPos, y \in (-MaxPos) .. MaxPos,
                    z \in (-MaxPos) .. MaxPos }

\* the keys the calls are made for: around the origin, below and above the world included
ProbeKeys == { <<x, y, 0>> : x \in -1 .. 1, y \in -1 .. WORLD_HEIGHT }

\* the local positions get_with_adjacent is called with: up to a chunk and a
\* cell before the chunk, up to a chunk past it
Offsets ==
    { <<x, y, z>> : x \in (-CHUNK_SIZE - 1) .. (2 * CHUNK_SIZE),
                    y \in (-CHUNK_SIZE - 1) .. (2 * CHUNK_SIZE),
                    z \in (-CHUNK_SIZE - 1) .. (2 * CHUNK_SIZE) }

\* (-1..=1).cartesian_product(-1..=1).cartesian_product(-1..=1), in iteration order
CubeSeq ==
    [i \in 1 .. 27 |-> <<((i - 1) \div 9) - 1, (((i - 1) \div 3) % 3) - 1, ((i - 1) % 3) - 1>>]

\* what the iterator adjacent_keys returns yields, in order
adjacent_list(key) ==
    LET Kept(v) == v # key /\ in_world_range(v)
    IN  SelectSeq([i \in 1 .. 27 |-> VAdd(CubeSeq[i], key)], Kept)

Calls ==
    [fn : {"get_keys"}, args : { <<p>> : p \in Positions }, out : {<<>>}]
    \cup [fn : {"get_with_adjacent"}, args : ProbeKeys \X Offsets, out : {<<>>}]
    \cup [fn : {"adjacent_keys"}, args : { <<k>> : k \in ProbeKeys }, out : {<<>>}]

InitLookup ==
    /\ chunks \in Stores
    /\ probe \in Calls
    /\ locks = NoLocks
    /\ mpc = NoWorkers
    /\ meshes = [k \in {} |-> [entity |-> <<k, 0>>, lod |-> 0]]
    /\ entities = [e \in {} |-> [key |-> e, needsTerrain |-> FALSE, needsMesh |-> <<>>]]
    /\ meshAssets = [h \in {} |-> <<>>]
    /\ commands = NoCommands
    /\ ran = {}
    /\ tpc = [e \in {} |-> "done"]
    /\ tlocal = [e \in {} |-> DefaultChunk]
    /\ panicked = FALSE
    /\ processed = DOMAIN chunks
    /\ writes = [k \in { j \in DOMAIN chunks : chunks[j].generated } |-> 1]
    /\ skips = [k \in {} |-> 0]
    /\ loadKey = <<>>
    /\ unloadKey = <<>>
    /\ moves = 0
    /\ translation = <<0, 0, 0>>
    /\ build = "release"
    /\ classified = NoColumn
    /\ BoxInit

\* the call returns: probe.out holds the value returned
Return(v) ==
    /\ probe.out = <<>>
    /\ probe' = [probe EXCEPT !.out = <<v>>]
    /\ UNCHANGED <<chunks, meshes, entities, meshAssets, commands, translation, ran, tpc,
                   tlocal, build, panicked, processed, writes, skips, loadKey, unloadKey,
                   classified, locks, mpc>>
    /\ UNCHANGED playerVars

GetKeys ==
    /\ probe.fn = "get_keys"
    /\ Return(get_keys(probe.args[1]))

GetWithAdjacent ==
    /\ probe.fn = "get_with_adjacent"
    /\ Return(get_with_adjacent(chunks, probe.args[1], probe.args[2]))

AdjacentKeys ==
    /\ probe.fn = "adjacent_keys"
    /\ Return(adjacent_list(probe.args[1]))

NextLookup ==
    \/ GetKeys
    \/ GetWithAdjacent
    \/ AdjacentKeys

SpecLookup == InitLookup /\ [][NextLookup]_vars

(***************************************************************************)
(* Properties of the lookup functions                                      *)
(***************************************************************************)
Returned(fn) == probe.fn = fn /\ probe.out # <<>>

\* C13: get_keys(p) = (key, local) with key * CHUNK_SIZE + local = p and
\* 0 <= local < CHUNK_SIZE on every axis, for positions of either sign.
C13_GetKeysRoundTrip ==
    Returned("get_keys") =>
        \A a \in 1 .. 3 :
            /\ probe.out[1].key[a] * CHUNK_SIZE + probe.out[1].pos[a] = probe.args[1][a]
            /\ 0 <= probe.out[1].pos[a]
            /\ probe.out[1].pos[a] < CHUNK_SIZE

\* get_keys has returned for a position with a negative component that is no
\* multiple of CHUNK_SIZE
C13_Witness ==
    /\ Returned("get_keys")
    /\ \E a \in 1 .. 3 : probe.args[1][a] < 0 /\ probe.args[1][a] % CHUNK_SIZE # 0
    /\ \E a \in 1 .. 3 : probe.out[1].key[a] < 0 /\ probe.out[1].pos[a] > 0

\* the chunk offsets a local position of Offsets can fall in
Shifts == { <<x, y, z>> : x \in -2 .. 2, y \in -2 .. 2, z \in -2 .. 2 }

\* q = floor(pos / CHUNK_SIZE) on every axis
IsFloor(q, pos) ==
    \A a \in 1 .. 3 : q[a] * CHUNK_SIZE <= pos[a] /\ pos[a] < (q[a] + 1) * CHUNK_SIZE

\* C14: get_with_adjacent(key, pos) returns None exactly when the chunk at
\* key + floor(pos / CHUNK_SIZE) is not loaded or not generated, otherwise
\* the voxel stored at pos mod CHUNK_SIZE of that chunk; the result is the
\* one of looking up get_keys(key * CHUNK_SIZE + pos) in the store.
C14_GetWithAdjacent ==
    Returned("get_with_adjacent") =>
        LET key == probe.args[1]
            pos == probe.args[2]
            r == probe.out[1]
            g == get_keys([a \in 1 .. 3 |-> key[a] * CHUNK_SIZE + pos[a]])
        IN  /\ \E q \in Shifts : IsFloor(q, pos)
            /\ \A q \in Shifts :
                  IsFloor(q, pos) =>
                      LET k == [a \in 1 .. 3 |-> key[a] + q[a]]
                          l == [a \in 1 .. 3 |-> pos[a] - q[a] * CHUNK_SIZE]
                      IN  /\ (r = <<>>) <=> (k \notin DOMAIN chunks \/ ~chunks[k].generated)
                          /\ r # <<>> => r = <<chunks[k].data[l[3]][l[2]][l[1]]>>
                          /\ g.key = k /\ g.pos = l
            /\ r = IF g.key \in DOMAIN chunks /\ chunks[g.key].generated
                    THEN <<chunks[g.key].data[g.pos[3]][g.pos[2]][g.pos[1]]>>
                    ELSE <<>>

\* a call with a negative, out-of-bounds position returned a full block of
\* another chunk
C14_Witness ==
    /\ Returned("get_with_adjacent")
    /\ probe.args[2][1] < 0 /\ probe.args[2][2] >= CHUNK_SIZE
    /\ probe.out[1] # <<>>
    /\ probe.out[1][1] # "Air"

\* C15: adjacent_keys(key) yields, each once, exactly the keys other than key
\* within 1 of key on every axis with y in 0 .. WORLD_HEIGHT - 1: 26 keys for
\* a key strictly inside the world height, 17 for a key on its first or last
\* layer; and for two keys in world range each is adjacent to the other or
\* neither is.
C15_AdjacentKeys ==
    Returned("adjacent_keys") =>
        LET key == probe.args[1]
            l == probe.out[1]
            around == { <<key[1] + x, key[2] + y, key[3] + z>> :
                            x \in -2 .. 2, y \in -2 .. 2, z \in -2 .. 2 }
        IN  /\ { l[i] : i \in 1 .. Len(l) } =
                   { k \in around : /\ k # key
                                    /\ \A a \in 1 .. 3 : Abs(k[a] - key[a]) <= 1
                                    /\ 0 <= k[2] /\ k[2] < WORLD_HEIGHT }
            /\ \A i, j \in 1 .. Len(l) : i # j => l[i] # l[j]
            /\ { l[i] : i \in 1 .. Len(l) } = adjacent_keys(key)
            /\ (0 < key[2] /\ key[2] < WORLD_HEIGHT - 1) => Len(l) = 26
            /\ (WORLD_HEIGHT > 1 /\ key[2] \in {0, WORLD_HEIGHT - 1}) => Len(l) = 17
            /\ (0 <= key[2] /\ key[2] < WORLD_HEIGHT) =>
                   \A b \in around :
                       (0 <= b[2] /\ b[2] < WORLD_HEIGHT) =>
                           ((b \in { l[i] : i \in 1 .. Len(l) }) <=> (key \in adjacent_keys(b)))

\* adjacent_keys has returned 17 keys for a key on the last layer of the world
C15_Witness ==
    /\ Returned("adjacent_keys")
    /\ probe.args[1][2] = WORLD_HEIGHT - 1
    /\ Len(probe.out[1]) = 17

(***************************************************************************)
(* Further properties of the streaming tick                                *)
(***************************************************************************)
\* the largest c with 2^c <= CHUNK_SIZE
LodCap == CHOOSE c \in 0 .. CHUNK_SIZE : Pow2(c) <= CHUNK_SIZE /\ CHUNK_SIZE < Pow2(c + 1)

\* Chebyshev distance of the horizontal offset (i, k)
Chebyshev(i, k) ==
    LET ai == IF i < 0 THEN -i ELSE i
        ak == IF k < 0 THEN -k ELSE k
    IN  IF ai >= ak THEN ai ELSE ak

\* min(floor(log2(CHUNK_SIZE)), max(|i|, |k|) div LOD_RANGE)
ExpectedLod(i, k) ==
    IF Chebyshev(i, k) \div LOD_RANGE <= LodCap
    THEN Chebyshev(i, k) \div LOD_RANGE
    ELSE LodCap

Horizontal == (-RENDER_DISTANCE) .. RENDER_DISTANCE

IsUnloadStep == "unload_chunks" \notin ran /\ "unload_chunks" \in ran'

\* the live chunk entities whose key is farther than RENDER_DISTANCE from the
\* observer's chunk key on x or on z
Outside(t) ==
    LET px == IF t[1] >= 0 THEN t[1] \div CHUNK_SIZE ELSE -((-t[1]) \div CHUNK_SIZE)
        pz == IF t[3] >= 0 THEN t[3] \div CHUNK_SIZE ELSE -((-t[3]) \div CHUNK_SIZE)
    IN  { e \in DOMAIN entities :
            \/ entities[e].key[1] - px > RENDER_DISTANCE
            \/ px - entities[e].key[1] > RENDER_DISTANCE
            \/ entities[e].key[3] - pz > RENDER_DISTANCE
            \/ pz - entities[e].key[3] > RENDER_DISTANCE }

\* C17: an unload_chunks pass removes the RenderEntry of the key of every chunk
\* entity outside the render-distance bounds and queues that entity's despawn,
\* which the end of the tick carries out; it changes nothing else: the chunk
\* store, the other RenderEntries, the entities and the meshes stay as they
\* were.  No step of the program removes or modifies a loaded key's presence:
\* the set of loaded keys only grows.
C17_EvictionKeepsData ==
    [][ /\ DOMAIN chunks \subseteq DOMAIN chunks'
        /\ IsUnloadStep =>
              LET out == Outside(translation)
                  gone == { entities[e].key : e \in out }
              IN  /\ chunks' = chunks
                  /\ DOMAIN meshes' = (DOMAIN meshes) \ gone
                  /\ \A k \in DOMAIN meshes' : meshes'[k] = meshes[k]
                  /\ DOMAIN commands'["unload_chunks"] = out
                  /\ \A e \in out : commands'["unload_chunks"][e].op = "despawn"
                  /\ \A s \in CommandSystems \ {"unload_chunks"} : commands'[s] = commands[s]
                  /\ <<entities, meshAssets, translation, panicked>>'
                        = <<entities, meshAssets, translation, panicked>>
        /\ IsApplyStep =>
              \A e \in DOMAIN commands["unload_chunks"] :
                  e \notin DOMAIN entities' /\ e \notin DOMAIN meshAssets' ]_vars

\* an unload_chunks pass has evicted the entity of a generated chunk and kept
\* the entity of a key at exactly RENDER_DISTANCE; the evicted key has lost its
\* RenderEntry and is still loaded and generated
C17_Witness ==
    /\ "unload_chunks" \in ran
    /\ \E e \in DOMAIN commands["unload_chunks"] :
          /\ e \in DOMAIN entities
          /\ entities[e].key \notin DOMAIN meshes
          /\ entities[e].key \in DOMAIN chunks
          /\ chunks[entities[e].key].generated
    /\ \E e \in (DOMAIN entities) \ DOMAIN commands["unload_chunks"] :
          /\ unloadKey # <<>>
          /\ entities[e].key[1] - unloadKey[1][1] \in {RENDER_DISTANCE, -RENDER_DISTANCE}
          /\ entities[e].key \in DOMAIN meshes

(***************************************************************************)
(* The tick under the schedule's fairness, the observer standing still:    *)
(* every registered system runs once in every tick and the stage applies   *)
(* the command buffers at its end, for as long as the process lives        *)
(***************************************************************************)
NextStill ==
    \/ LoadChunks
    \/ UnloadChunks
    \/ GenerateTerrain
    \/ GenerateMesh
    \/ StandStill
    \/ ApplyBuffers

\* the step in which system s has its run of the tick: the one action that
\* puts s into `ran`, enabled exactly when that action is
Runs(s) == ~panicked /\ Idle /\ s \notin ran /\ ran' = ran \cup {s}

\* the step in which the stage applies the buffers: ApplyBuffers
StageEnds == ~panicked /\ Idle /\ ran = Systems /\ ran' = {}

\* the schedule: a system that has not run in the tick gets its run, and a
\* stage whose systems have all run ends
EveryTick ==
    /\ WF_ran(Runs("load_chunks"))
    /\ WF_ran(Runs("unload_chunks"))
    /\ WF_ran(Runs("generate_terrain"))
    /\ WF_ran(Runs("generate_mesh"))
    /\ WF_ran(Runs("move_camera"))
    /\ WF_ran(StageEnds)

SpecStill == Init /\ [][NextStill]_vars /\ EveryTick

\* the key's entity is alive, carries no NeedsMesh, and its mesh was written
\* at the LOD of the key's RenderEntry
Meshed(k) ==
    /\ k \in DOMAIN meshes
    /\ meshes[k].entity \in DOMAIN entities
    /\ entities[meshes[k].entity].needsMesh = <<>>
    /\ meshAssets[meshes[k].entity] # <<>>
    /\ meshAssets[meshes[k].entity][1].lod = meshes[k].lod

\* the observer's own key at the start, and the keys of the first layer at
\* exactly RENDER_DISTANCE from it on x
Own == <<0, 0, 0>>

Rim == { <<-RENDER_DISTANCE, 0, 0>>, <<RENDER_DISTANCE, 0, 0>> }

\* Lemma: in a release build the observer's own key, whose 17 adjacent keys
\* load_chunks all loads, is eventually meshed.
MeshingLivenessOwn ==
    (build = "release" /\ Own \in DOMAIN meshes) ~> Meshed(Own)

\* C18: with the observer standing still and every system run once per tick,
\* every key that has a RenderEntry is eventually meshed at its required LOD
\* with its entity's NeedsMesh removed, the keys at exactly RENDER_DISTANCE
\* from the observer included.  Stated for the keys at RENDER_DISTANCE on x
\* and for the release build, where no arithmetic aborts the process.
C18_MeshingLiveness ==
    \A k \in Rim : (build = "release" /\ k \in DOMAIN meshes) ~> Meshed(k)

(***************************************************************************)
(* The tick under the schedule's fairness, the observer moving             *)
(***************************************************************************)
SpecFair == Init /\ [][Next]_vars /\ EveryTick

\* the key is generated, or its RenderEntry's entity is alive and carries NeedsTerrain
GeneratedOrRequested(k) ==
    \/ is_generated(chunks, k)
    \/ /\ meshes[k].entity \in DOMAIN entities
       /\ entities[meshes[k].entity].needsTerrain

\* between ticks, every key with a RenderEntry is generated or has its
\* generation requested
GenerationRequested ==
    ran = {} => \A k \in DOMAIN meshes : GeneratedOrRequested(k)

\* the key is within RENDER_DISTANCE of the observer's chunk key on x and z
Near(k) ==
    LET px == IF translation[1] >= 0 THEN translation[1] \div CHUNK_SIZE
              ELSE -((-translation[1]) \div CHUNK_SIZE)
        pz == IF translation[3] >= 0 THEN translation[3] \div CHUNK_SIZE
              ELSE -((-translation[3]) \div CHUNK_SIZE)
    IN  /\ k[1] - px \in (-RENDER_DISTANCE) .. RENDER_DISTANCE
        /\ k[3] - pz \in (-RENDER_DISTANCE) .. RENDER_DISTANCE

\* the observer's own key at the start, the keys at RENDER_DISTANCE from it,
\* and the key that comes into range when the observer moves one chunk on x
Watched == {Own} \cup Rim \cup { <<RENDER_DISTANCE + 1, 0, 0>> }

\* Lemma: in a release build a watched key with a RenderEntry is eventually
\* generated or out of render range, unless the process aborts at the end of
\* a stage.
GenerationLivenessRelease ==
    \A k \in Watched :
        (build = "release" /\ k \in DOMAIN meshes)
            ~> (is_generated(chunks, k) \/ ~Near(k) \/ panicked)

\* C19: between ticks every key with a RenderEntry is generated or its entity
\* carries NeedsTerrain, and every key that load_chunks gives a RenderEntry is
\* eventually generated unless it leaves render range, a key that was evicted
\* and has re-entered included.
C19_GenerationLiveness ==
    /\ []GenerationRequested
    /\ \A k \in Watched :
          (k \in DOMAIN meshes) ~> (is_generated(chunks, k) \/ ~Near(k))

\* C20: between ticks, for every chunk entity that carries no NeedsMesh and
\* whose mesh has been written, the LOD at which the mesh was extracted is
\* the LOD recorded in its key's RenderEntry, whatever the order in which
\* load_chunks and generate_mesh ran in the tick and in which their command
\* buffers were applied.
C20_BakedLodMatches ==
    (ran = {} /\ ~panicked) =>
        \A k \in DOMAIN meshes :
            ( /\ meshes[k].entity \in DOMAIN entities
              /\ entities[meshes[k].entity].needsMesh = <<>>
              /\ meshAssets[meshes[k].entity] # <<>> )
            => meshAssets[meshes[k].entity][1].lod = meshes[k].lod

\* the key that get_keys assigns to the observer's voxel, with y set to 0
ObserverKey(t) == <<get_keys(t).key[1], 0, get_keys(t).key[3]>>

\* C21: the observer chunk key that load_chunks and unload_chunks compute
\* equals, on x and z, the key get_keys assigns to the voxel the observer is
\* in (floor division by CHUNK_SIZE), at negative x and z too, and its y is 0.
C21_ObserverKey ==
    [][ /\ IsLoadStep => loadKey' = <<ObserverKey(translation)>>
        /\ IsUnloadStep => unloadKey' = <<ObserverKey(translation)>> ]_vars

\* Lemma: the two keys agree wherever the observer's x and z are not negative.
ObserverKeyNonNegative ==
    [][ (translation[1] >= 0 /\ translation[3] >= 0) =>
          /\ IsLoadStep => loadKey' = <<ObserverKey(translation)>>
          /\ IsUnloadStep => unloadKey' = <<ObserverKey(translation)>> ]_vars

(***************************************************************************)
(* Further properties of the collision resolver                            *)
(***************************************************************************)
\* the voxel belongs to a chunk the store holds with generated = false
Ungenerated(store, cell) ==
    /\ is_loaded(store, get_keys(cell).key)
    /\ ~store[get_keys(cell).key].generated

\* C22: for every probe direction, in the order the probes run, if a corner's
\* prospective cell along that direction belongs to a chunk that is loaded but
\* not generated, the probe is blocked as for an unloaded chunk: after
\* collision the velocity and mask components along the direction are 0.
C22_UngeneratedIsSolid ==
    Collided =>
        \A i \in 1 .. Len(ProbeOrder) :
            LET dir == ProbeOrder[i]
                before == Resolve(chunks, bounding, prevVelocity, delta, i - 1)
            IN  (\E c \in Corners(bounding) :
                     Ungenerated(chunks, Cell(VAdd(c, VScale(VMul(before.velocity, dir), delta)))))
                => \A a \in 1 .. 3 :
                       dir[a] = 1 => (velocity[a] = 0 /\ velocityMask[a] = 0)

(***************************************************************************)
(* Further properties of the streaming tick: RenderEntries and entities    *)
(***************************************************************************)
\* the LOD load_chunks requires of key when the observer's key is pk
Required(key, pk) == ExpectedLod(key[1] - pk[1], key[3] - pk[3])

\* C23: when load_chunks processes a key that already has a RenderEntry: if
\* the required LOD equals the recorded one, the entry is unchanged and no
\* command is issued for its entity; if they differ, the pass issues the
\* insert of NeedsMesh at the new LOD for the entry's entity and records the
\* new LOD in the same step, keeping the entry's entity and creating no
\* other; and the insert leaves the entity with NeedsMesh at the new LOD
\* when the buffers are applied, unless another system's command for the
\* entity is applied too.
C23_LodChangeProtocol ==
    [][ /\ IsLoadStep =>
              LET pk == PlayerKey(translation)
                  queue == commands'["load_chunks"]
              IN  \A k \in InRange(pk) \cap DOMAIN meshes :
                      LET e == meshes[k].entity
                      IN  /\ meshes'[k].entity = e
                          /\ \A f \in DOMAIN queue : queue[f].key = k => f = e
                          /\ Cardinality({ h \in DOMAIN meshAssets' : h[1] = k })
                                = Cardinality({ h \in DOMAIN meshAssets : h[1] = k })
                          /\ IF meshes[k].lod = Required(k, pk)
                             THEN meshes'[k] = meshes[k] /\ e \notin DOMAIN queue
                             ELSE /\ meshes'[k].lod = Required(k, pk)
                                  /\ e \in DOMAIN queue
                                  /\ queue[e].op = "insert_needs_mesh"
                                  /\ queue[e].lod = Required(k, pk)
        /\ (IsApplyStep /\ ~panicked') =>
              \A e \in DOMAIN commands["load_chunks"] :
                  ( /\ commands["load_chunks"][e].op = "insert_needs_mesh"
                    /\ \A s \in CommandSystems \ {"load_chunks"} : e \notin DOMAIN commands[s] )
                  => /\ e \in DOMAIN entities'
                     /\ entities'[e].needsMesh = <<commands["load_chunks"][e].lod>> ]_vars

\* a load_chunks pass has found two RenderEntries of live entities in range,
\* one at the required LOD, which it left alone, and one at another LOD, for
\* which it recorded the required LOD and queued the insert
C23_Witness ==
    /\ "load_chunks" \in ran /\ loadKey # <<>>
    /\ \E k \in InRange(loadKey[1]) \cap DOMAIN meshes :
          /\ meshes[k].entity \in DOMAIN entities
          /\ meshes[k].entity \notin DOMAIN commands["load_chunks"]
          /\ meshes[k].lod = Required(k, loadKey[1])
    /\ \E k \in InRange(loadKey[1]) \cap DOMAIN meshes :
          /\ meshes[k].entity \in DOMAIN entities
          /\ meshes[k].entity \in DOMAIN commands["load_chunks"]
          /\ commands["load_chunks"][meshes[k].entity].op = "insert_needs_mesh"
          /\ commands["load_chunks"][meshes[k].entity].lod = meshes[k].lod
          /\ entities[meshes[k].entity].needsMesh # <<meshes[k].lod>>

\* C24: a key that is generated and has lost its RenderEntry to unload_chunks
\* gets, from the load_chunks pass that finds it in range again, a new
\* RenderEntry and a new entity with NeedsMesh at the required LOD and
\* without NeedsTerrain; the voxel array of a generated chunk is never
\* stored again or changed, so its contents after re-entry are those before
\* the eviction.
C24_ReentryKeepsVoxels ==
    [][ /\ \A k \in DOMAIN chunks :
              chunks[k].generated => (chunks'[k] = chunks[k] /\ writes'[k] = writes[k])
        /\ IsLoadStep =>
              LET pk == PlayerKey(translation)
                  queue == commands'["load_chunks"]
              IN  \A k \in InRange(pk) \ DOMAIN meshes :
                      is_generated(chunks, k) =>
                          /\ k \in DOMAIN meshes'
                          /\ meshes'[k].lod = Required(k, pk)
                          /\ meshes'[k].entity \notin DOMAIN entities
                          /\ meshes'[k].entity \in DOMAIN queue
                          /\ queue[meshes'[k].entity]
                                = [op |-> "spawn", key |-> k, lod |-> Required(k, pk),
                                   terrain |-> FALSE]
        /\ (IsApplyStep /\ ~panicked') =>
              \A e \in DOMAIN commands["load_chunks"] :
                  commands["load_chunks"][e].op = "spawn" =>
                      /\ e \in DOMAIN entities'
                      /\ entities'[e].key = commands["load_chunks"][e].key
                      /\ entities'[e].needsMesh = <<commands["load_chunks"][e].lod>>
                      /\ entities'[e].needsTerrain = commands["load_chunks"][e].terrain ]_vars

\* a key was generated once and evicted; its first entity is gone, and the
\* commands of a later load_chunks pass have given it a second entity, which
\* carries NeedsMesh and no NeedsTerrain
C24_Witness ==
    /\ ran = {} /\ ~panicked
    /\ \E k \in DOMAIN meshes :
          /\ meshes[k].entity = <<k, 1>>
          /\ <<k, 0>> \notin DOMAIN entities
          /\ <<k, 1>> \in DOMAIN entities
          /\ entities[<<k, 1>>].needsMesh # <<>>
          /\ ~entities[<<k, 1>>].needsTerrain
          /\ is_generated(chunks, k)
          /\ writes[k] = 1

(***************************************************************************)
(* Further properties of the collision resolver: the mask                  *)
(***************************************************************************)
\* the probe directions in the order X, Z, Y, X+Z, X+Y, Y+Z
Directions ==
    << <<1, 0, 0>>, <<0, 0, 1>>, <<0, 1, 0>>, <<1, 0, 1>>, <<1, 1, 0>>, <<0, 1, 1>> >>

\* with velocity v, the probe along dir finds a corner's prospective cell full
\* or in a chunk that is not loaded
ProbeBlocked(v, dir) ==
    \E c \in Corners(bounding) :
        LET cell == Cell(VAdd(c, VScale(<<v[1] * dir[1], v[2] * dir[2], v[3] * dir[3]>>, delta)))
        IN  InFull(chunks, cell) \/ Unloaded(chunks, cell)

\* the velocity the probes after the first n see: that of the start of the
\* tick, with the components of every blocked direction set to 0
RECURSIVE Seen(_)
Seen(n) ==
    IF n = 0 THEN prevVelocity
    ELSE LET v == Seen(n - 1)
         IN  IF ProbeBlocked(v, Directions[n])
             THEN [a \in 1 .. 3 |-> IF Directions[n][a] = 1 THEN 0 ELSE v[a]]
             ELSE v

\* C25: after collision, whatever the mask was before, mask component a is 0
\* exactly when one of the six probes, run in the order X, Z, Y, X+Z, X+Y,
\* Y+Z with each probe seeing the velocity as the earlier ones corrected it,
\* was blocked along a direction containing axis a, and 1 otherwise; the
\* velocity is the one the last probe leaves.
C25_MaskRecomputed ==
    Collided =>
        LET blocked == { i \in 1 .. 6 : ProbeBlocked(Seen(i - 1), Directions[i]) }
        IN  /\ \A a \in 1 .. 3 :
                  velocityMask[a] =
                      IF \E i \in blocked : Directions[i][a] = 1 THEN 0 ELSE 1
            /\ velocity = Seen(6)

\* collision has run on a box that started free: the probe along X was
\* blocked, and the probe along X+Z, blocked for the velocity of the start of
\* the tick, was free for the corrected velocity, so that z stayed unmasked
C25_Witness ==
    /\ Collided /\ StartFree
    /\ ProbeBlocked(prevVelocity, Directions[1])
    /\ ProbeBlocked(prevVelocity, Directions[4])
    /\ ~ProbeBlocked(Seen(3), Directions[4])
    /\ prevVelocity[3] # 0
    /\ velocityMask[1] = 0 /\ velocityMask[3] = 1

(***************************************************************************)
(* The parallel passes with their mutexes: generate_terrain wraps the      *)
(* manager and the commands in Arc<Mutex<..>>, generate_mesh the commands  *)
(* and the meshes; each worker of par_for_each runs the closure            *)
(***************************************************************************)
\* Mutex::lock returns once the mutex is free, and the worker then holds it
CanLock(m) == locks[m] = {}

Lock(l, m, e) == [l EXCEPT ![m] = {e}]

\* the guard is dropped
Unlock(l, m) == [l EXCEPT ![m] = {}]

\* the worker's guards
Held(e) == { m \in DOMAIN locks : e \in locks[m] }

\* the guard of the `if` condition kept for the whole `if` block
AfterCheck_guard_kept(l) == l

\* `if !manager.lock().unwrap().is_generated(chunk.key) {`: the guard is a
\* temporary of the condition, dropped before the block is entered
AfterCheck(l) == Unlock(l, "manager")

\* the workers the pool has taken up and not finished
Running(pc) == { e \in DOMAIN pc : pc[e] \notin {"start", "done"} }

\* the pool takes up the next task when it has a thread for it
CanStart(pc, e) ==
    /\ Cardinality(Running(pc)) < MaxWorkers
    /\ \A f \in DOMAIN pc : pc[f] = "start" => Rank(e) <= Rank(f)

\* the query of generate_terrain: one task per entity With<NeedsTerrain>
LockedTerrainBegin ==
    /\ ~panicked /\ Idle /\ DOMAIN mpc = {} /\ "generate_terrain" \notin ran
    /\ LET q == { e \in DOMAIN entities : entities[e].needsTerrain }
       IN  /\ tpc' = [e \in q |-> "start"]
           /\ tlocal' = [e \in q |-> DefaultChunk]
           /\ ran' = IF q = {} THEN ran \cup {"generate_terrain"} ELSE ran
    /\ UNCHANGED <<chunks, meshes, entities, meshAssets, commands, translation, build,
                   panicked, processed, writes, skips, loadKey, unloadKey, classified, probe,
                   locks, mpc>>
    /\ UNCHANGED playerVars

\* manager.lock() of the condition
TLockCheck(e) ==
    /\ ~panicked /\ e \in DOMAIN tpc /\ tpc[e] = "start"
    /\ CanStart(tpc, e)
    /\ CanLock("manager")
    /\ locks' = Lock(locks, "manager", e)
    /\ tpc' = [tpc EXCEPT ![e] = "check"]
    /\ UNCHANGED <<chunks, meshes, entities, meshAssets, commands, translation, ran, tlocal,
                   build, panicked, processed, writes, skips, loadKey, unloadKey, classified,
                   probe, mpc>>
    /\ UNCHANGED playerVars

\* .is_generated(chunk.key), and the end of the condition
TLockedCheck(e) ==
    /\ ~panicked /\ e \in DOMAIN tpc /\ tpc[e] = "check"
    /\ tpc' = [tpc EXCEPT ![e] =
                  IF NextPc(is_generated(chunks, entities[e].key)) = "fill"
                  THEN "fill" ELSE "lock_remove"]
    /\ skips' = IF NextPc(is_generated(chunks, entities[e].key)) = "fill"
                THEN skips ELSE Bump(skips, entities[e].key)
    /\ locks' = AfterCheck(locks)
    /\ UNCHANGED <<chunks, meshes, entities, meshAssets, commands, translation, ran, tlocal,
                   build, panicked, processed, writes, loadKey, unloadKey, classified, probe,
                   mpc>>
    /\ UNCHANGED playerVars

\* the fill loop on the worker's own `data`
TLockedFill(e) ==
    /\ ~panicked /\ e \in DOMAIN tpc /\ tpc[e] = "fill"
    /\ LET d == GenerateData(entities[e].key, build)
       IN  IF HasPanic(d)
           THEN /\ panicked' = TRUE
                /\ UNCHANGED <<tpc, tlocal>>
           ELSE /\ tlocal' = [tlocal EXCEPT ![e] = [data |-> d, generated |-> TRUE]]
                /\ tpc' = [tpc EXCEPT ![e] = "lock_publish"]
                /\ UNCHANGED panicked
    /\ UNCHANGED <<chunks, meshes, entities, meshAssets, commands, translation, ran, build,
                   processed, writes, skips, loadKey, unloadKey, classified, probe, locks, mpc>>
    /\ UNCHANGED playerVars

\* manager.lock() of the assignment
TLockPublish(e) ==
    /\ ~panicked /\ e \in DOMAIN tpc /\ tpc[e] = "lock_publish"
    /\ CanLock("manager")
    /\ locks' = Lock(locks, "manager", e)
    /\ tpc' = [tpc EXCEPT ![e] = "publish"]
    /\ UNCHANGED <<chunks, meshes, entities, meshAssets, commands, translation, ran, tlocal,
                   build, panicked, processed, writes, skips, loadKey, unloadKey, classified,
                   probe, mpc>>
    /\ UNCHANGED playerVars

\* *...chunks.get_mut(&chunk.key).unwrap() = data, and the end of the statement
TLockedPublish(e) ==
    /\ ~panicked /\ e \in DOMAIN tpc /\ tpc[e] = "publish"
    /\ LET key == entities[e].key
       IN  IF key \notin DOMAIN chunks
           THEN /\ panicked' = TRUE
                /\ UNCHANGED <<chunks, writes, tpc, tlocal, locks>>
           ELSE /\ chunks' = Publish(chunks, key, tlocal[e])
                /\ writes' = Bump(writes, key)
                /\ tpc' = [tpc EXCEPT ![e] = "lock_remove"]
                /\ tlocal' = [tlocal EXCEPT ![e] = DefaultChunk]
                /\ locks' = Unlock(locks, "manager")
                /\ UNCHANGED panicked
    /\ UNCHANGED <<meshes, entities, meshAssets, commands, translation, ran, build,
                   processed, skips, loadKey, unloadKey, classified, probe, mpc>>
    /\ UNCHANGED playerVars

\* commands.lock() of the last statement
TLockRemove(e) ==
    /\ ~panicked /\ e \in DOMAIN tpc /\ tpc[e] = "lock_remove"
    /\ CanLock("commands")
    /\ locks' = Lock(locks, "commands", e)
    /\ tpc' = [tpc EXCEPT ![e] = "remove"]
    /\ UNCHANGED <<chunks, meshes, entities, meshAssets, commands, translation, ran, tlocal,
                   build, panicked, processed, writes, skips, loadKey, unloadKey, classified,
                   probe, mpc>>
    /\ UNCHANGED playerVars

\* .entity(entity).remove::<NeedsTerrain>(), and the end of the statement
TLockedRemove(e) ==
    /\ ~panicked /\ e \in DOMAIN tpc /\ tpc[e] = "remove"
    /\ commands' = [commands EXCEPT !["generate_terrain"] =
                       [f \in (DOMAIN @) \cup {e} |->
                           Cmd("remove_needs_terrain", entities[f].key, 0, FALSE)]]
    /\ locks' = Unlock(locks, "commands")
    /\ tpc' = [tpc EXCEPT ![e] = "done"]
    /\ UNCHANGED <<chunks, meshes, entities, meshAssets, translation, ran, tlocal, build,
                   panicked, processed, writes, skips, loadKey, unloadKey, classified, probe,
                   mpc>>
    /\ UNCHANGED playerVars

LockedTerrainWorker ==
    \E e \in DOMAIN tpc :
        \/ TLockCheck(e)
        \/ TLockedCheck(e)
        \/ TLockedFill(e)
        \/ TLockPublish(e)
        \/ TLockedPublish(e)
        \/ TLockRemove(e)
        \/ TLockedRemove(e)

\* the query of generate_mesh: one task per entity with NeedsMesh
LockedMeshBegin ==
    /\ ~panicked /\ Idle /\ DOMAIN mpc = {} /\ "generate_mesh" \notin ran
    /\ LET q == { e \in DOMAIN entities : entities[e].needsMesh # <<>> }
       IN  /\ mpc' = [e \in q |-> "start"]
           /\ ran' = IF q = {} THEN ran \cup {"generate_mesh"} ELSE ran
    /\ UNCHANGED <<chunks, meshes, entities, meshAssets, commands, translation, tpc, tlocal,
                   build, panicked, processed, writes, skips, loadKey, unloadKey, classified,
                   probe, locks>>
    /\ UNCHANGED playerVars

\* the gate, then the face loop on the worker's own buffers; `manager` is a
\* shared Res and is read without a lock
MGate(e) ==
    /\ ~panicked /\ e \in DOMAIN mpc /\ mpc[e] = "start"
    /\ CanStart(mpc, e)
    /\ mpc' = [mpc EXCEPT ![e] =
                  IF MeshGate(chunks, entities[e].key) THEN "lock_meshes" ELSE "done"]
    /\ UNCHANGED <<chunks, meshes, entities, meshAssets, commands, translation, ran, tpc,
                   tlocal, build, panicked, processed, writes, skips, loadKey, unloadKey,
                   classified, probe, locks>>
    /\ UNCHANGED playerVars

\* let mut meshes = meshes.lock().unwrap()
MLockMeshes(e) ==
    /\ ~panicked /\ e \in DOMAIN mpc /\ mpc[e] = "lock_meshes"
    /\ CanLock("meshes")
    /\ locks' = Lock(locks, "meshes", e)
    /\ mpc' = [mpc EXCEPT ![e] = "write"]
    /\ UNCHANGED <<chunks, meshes, entities, meshAssets, commands, translation, ran, tpc,
                   tlocal, build, panicked, processed, writes, skips, loadKey, unloadKey,
                   classified, probe>>
    /\ UNCHANGED playerVars

\* meshes.get_mut(mesh).unwrap(), insert_attribute x 3, set_indices
MWrite(e) ==
    /\ ~panicked /\ e \in DOMAIN mpc /\ mpc[e] = "write"
    /\ IF e \notin DOMAIN meshAssets
       THEN /\ panicked' = TRUE
            /\ UNCHANGED <<meshAssets, mpc>>
       ELSE /\ meshAssets' = [meshAssets EXCEPT ![e] =
                                 <<MeshBuffers(chunks, entities[e].key, entities[e].needsMesh[1])>>]
            /\ mpc' = [mpc EXCEPT ![e] = "lock_commands"]
            /\ UNCHANGED panicked
    /\ UNCHANGED <<chunks, meshes, entities, commands, translation, ran, tpc, tlocal, build,
                   processed, writes, skips, loadKey, unloadKey, classified, probe, locks>>
    /\ UNCHANGED playerVars

\* commands.lock(), the guard of `meshes` still alive (its drop is commented out)
MLockCommands(e) ==
    /\ ~panicked /\ e \in DOMAIN mpc /\ mpc[e] = "lock_commands"
    /\ CanLock("commands")
    /\ locks' = Lock(locks, "commands", e)
    /\ mpc' = [mpc EXCEPT ![e] = "remove"]
    /\ UNCHANGED <<chunks, meshes, entities, meshAssets, commands, translation, ran, tpc,
                   tlocal, build, panicked, processed, writes, skips, loadKey, unloadKey,
                   classified, probe>>
    /\ UNCHANGED playerVars

\* .entity(entity).remove::<NeedsMesh>(), and the end of the statement
MRemove(e) ==
    /\ ~panicked /\ e \in DOMAIN mpc /\ mpc[e] = "remove"
    /\ commands' = [commands EXCEPT !["generate_mesh"] =
                       [f \in (DOMAIN @) \cup {e} |->
                           Cmd("remove_needs_mesh", entities[f].key, 0, FALSE)]]
    /\ locks' = Unlock(locks, "commands")
    /\ mpc' = [mpc EXCEPT ![e] = "return"]
    /\ UNCHANGED <<chunks, meshes, entities, meshAssets, translation, ran, tpc, tlocal, build,
                   panicked, processed, writes, skips, loadKey, unloadKey, classified, probe>>
    /\ UNCHANGED playerVars

\* the end of the closure: the guard `meshes` goes out of scope
MReturn(e) ==
    /\ ~panicked /\ e \in DOMAIN mpc /\ mpc[e] = "return"
    /\ locks' = Unlock(locks, "meshes")
    /\ mpc' = [mpc EXCEPT ![e] = "done"]
    /\ UNCHANGED <<chunks, meshes, entities, meshAssets, commands, translation, ran, tpc,
                   tlocal, build, panicked, processed, writes, skips, loadKey, unloadKey,
                   classified, probe>>
    /\ UNCHANGED playerVars

LockedMeshWorker ==
    \E e \in DOMAIN mpc :
        \/ MGate(e)
        \/ MLockMeshes(e)
        \/ MWrite(e)
        \/ MLockCommands(e)
        \/ MRemove(e)
        \/ MReturn(e)

\* par_for_each returns when every task has run
LockedMeshEnd ==
    /\ ~panicked /\ DOMAIN mpc # {}
    /\ \A e \in DOMAIN mpc : mpc[e] = "done"
    /\ mpc' = NoWorkers
    /\ ran' = ran \cup {"generate_mesh"}
    /\ UNCHANGED <<chunks, meshes, entities, meshAssets, commands, translation, tpc, tlocal,
                   build, panicked, processed, writes, skips, loadKey, unloadKey, classified,
                   probe, locks>>
    /\ UNCHANGED playerVars

\* the world the first tick leaves: the chunks around the observer loaded and
\* not generated, their entities spawned with NeedsTerrain and NeedsMesh
InitLocks ==
    /\ chunks = StoreLoaded([k \in {} |-> DefaultChunk], <<0, 0, 0>>)
    /\ meshes = EntriesAround(<<0, 0, 0>>)
    /\ entities = EntitiesAround(chunks, <<0, 0, 0>>)
    /\ meshAssets = [e \in DOMAIN entities |-> <<>>]
    /\ translation = <<0, 0, 0>>
    /\ build \in Builds
    /\ commands = NoCommands
    /\ ran = {}
    /\ tpc = [e \in {} |-> "done"]
    /\ tlocal = [e \in {} |-> DefaultChunk]
    /\ panicked = FALSE
    /\ processed = DOMAIN chunks
    /\ writes = [k \in {} |-> 0]
    /\ skips = [k \in {} |-> 0]
    /\ loadKey = <<>>
    /\ unloadKey = <<>>
    /\ moves = 0
    /\ classified = NoColumn
    /\ probe = NoProbe
    /\ locks = NoLocks
    /\ mpc = NoWorkers
    /\ BoxInit

NextLocks ==
    \/ LockedTerrainBegin
    \/ LockedTerrainWorker
    \/ TerrainEnd
    \/ LockedMeshBegin
    \/ LockedMeshWorker
    \/ LockedMeshEnd

\* the steps of the passes other than a mesh worker's write
OtherSteps ==
    \/ LockedTerrainBegin
    \/ LockedTerrainWorker
    \/ TerrainEnd
    \/ LockedMeshBegin
    \/ LockedMeshEnd
    \/ \E e \in DOMAIN mpc :
          MGate(e) \/ MLockMeshes(e) \/ MLockCommands(e) \/ MRemove(e) \/ MReturn(e)

\* the step MWrite(e), as far as the worker's position and the abort go
Writes(e) ==
    /\ ~panicked /\ e \in DOMAIN mpc /\ mpc[e] = "write"
    /\ mpc' = [mpc EXCEPT ![e] = IF e \in DOMAIN meshAssets THEN "lock_commands" ELSE @]
    /\ panicked' = (e \notin DOMAIN meshAssets)

\* the pool runs a task that can take a step
PoolRuns ==
    /\ WF_vars(OtherSteps)
    /\ WF_<<mpc, panicked>>(\E e \in DOMAIN mpc : Writes(e))

SpecLocks == InitLocks /\ [][NextLocks]_vars /\ PoolRuns

\* a worker of generate_terrain never holds the manager and the commands
\* mutexes together, and holds none during the fill loop; a worker of
\* generate_mesh that holds the commands mutex holds the meshes mutex, and one
\* that waits for the meshes mutex holds none
LockDiscipline ==
    /\ \A e \in DOMAIN tpc :
          /\ Cardinality(Held(e)) <= 1
          /\ tpc[e] = "fill" => Held(e) = {}
          /\ "meshes" \notin Held(e)
    /\ \A e \in DOMAIN mpc :
          /\ "manager" \notin Held(e)
          /\ "commands" \in Held(e) => "meshes" \in Held(e)
          /\ mpc[e] = "lock_meshes" => Held(e) = {}
    /\ \A m \in DOMAIN locks : Cardinality(locks[m]) <= 1

\* a pass is in progress
InPass == DOMAIN tpc # {} \/ DOMAIN mpc # {}

\* C26: in generate_terrain no worker holds the manager and the commands
\* mutexes at once and the fill loop runs with no mutex held; in generate_mesh
\* the meshes mutex is taken before the commands mutex, never the other way
\* round; and no worker blocks for ever: a pass that has started comes to its
\* end with every worker finished and every mutex free, unless the process
\* aborts.
C26_PassesTerminate ==
    /\ []LockDiscipline
    /\ InPass ~> ((~InPass /\ locks = NoLocks) \/ panicked)
    /\ <>(panicked \/ {"generate_terrain", "generate_mesh"} \subseteq ran)

\* generate_terrain has finished with every chunk written once; in
\* generate_mesh one worker holds the meshes and the commands mutexes while
\* another waits for the meshes mutex
C26_Witness ==
    /\ "generate_terrain" \in ran /\ ~panicked
    /\ \A k \in DOMAIN chunks : chunks[k].generated /\ writes[k] = 1
    /\ \E e \in DOMAIN mpc, f \in DOMAIN mpc :
          /\ e # f
          /\ Held(e) = {"meshes", "commands"}
          /\ mpc[f] = "lock_meshes"

\* in generate_terrain one worker holds the manager mutex while another waits
\* for it with its chunk filled
TerrainContention ==
    \E e \in DOMAIN tpc, f \in DOMAIN tpc :
        e # f /\ Held(e) = {"manager"} /\ tpc[f] = "lock_publish"

(***************************************************************************)
(* The voxel iterators of ChunkData, called on their own                   *)
(***************************************************************************)
\* the tiers the iterators are called with: up to one past the last whose
\* stride fits in a chunk
Tiers == 0 .. (LodCap + 1)

\* (0..CHUNK_SIZE).step_by(1): the stride ignored
step_by_unit(s) == [i \in 1 .. CHUNK_SIZE |-> i - 1]

\* (0..CHUNK_SIZE).step_by(s): 0, s, 2s, ... below CHUNK_SIZE, in order
step_by(s) == [i \in 1 .. ((CHUNK_SIZE + s - 1) \div s) |-> (i - 1) * s]

\* a.cartesian_product(b): every item of a with every item of b, b innermost
cartesian_product(a, b) ==
    [i \in 1 .. (Len(a) * Len(b)) |->
        <<a[((i - 1) \div Len(b)) + 1], b[((i - 1) % Len(b)) + 1]>>]

\* base.clone().cartesian_product(base)
slice_lod(lod) == cartesian_product(step_by(Pow2(lod)), step_by(Pow2(lod)))

\* slice_lod(lod).cartesian_product(0..CHUNK_SIZE).map(|((x, z), y)| (x, y, z)),
\* as the list the iterator yields
all_lod_items(lod) ==
    LET it == cartesian_product(slice_lod(lod), [i \in 1 .. CHUNK_SIZE |-> i - 1])
    IN  [i \in DOMAIN it |-> <<it[i][1][1], it[i][2], it[i][1][2]>>]

\* all_lod(lod).map(|(x, y, z)| (self.data[z][y][x], x, y, z))
all_blocks_lod(c, lod) ==
    LET it == all_lod_items(lod)
    IN  [i \in DOMAIN it |-> <<c.data[it[i][3]][it[i][2]][it[i][1]], it[i][1], it[i][2], it[i][3]>>]

\* the calls made: a chunk of the store and a tier
IterCalls ==
    [fn : {"all_blocks_lod"}, args : { <<k, l>> : k \in WorldKeys, l \in Tiers }, out : {<<>>}]

InitIter ==
    /\ chunks \in Stores
    /\ probe \in IterCalls
    /\ probe.args[1] \in DOMAIN chunks
    /\ locks = NoLocks
    /\ mpc = NoWorkers
    /\ meshes = [k \in {} |-> [entity |-> <<k, 0>>, lod |-> 0]]
    /\ entities = [e \in {} |-> [key |-> e, needsTerrain |-> FALSE, needsMesh |-> <<>>]]
    /\ meshAssets = [h \in {} |-> <<>>]
    /\ commands = NoCommands
    /\ ran = {}
    /\ tpc = [e \in {} |-> "done"]
    /\ tlocal = [e \in {} |-> DefaultChunk]
    /\ panicked = FALSE
    /\ processed = DOMAIN chunks
    /\ writes = [k \in { j \in DOMAIN chunks : chunks[j].generated } |-> 1]
    /\ skips = [k \in {} |-> 0]
    /\ loadKey = <<>>
    /\ unloadKey = <<>>
    /\ moves = 0
    /\ translation = <<0, 0, 0>>
    /\ build = "release"
    /\ classified = NoColumn
    /\ BoxInit

AllBlocksLod ==
    /\ probe.fn = "all_blocks_lod"
    /\ Return(all_blocks_lod(chunks[probe.args[1]], probe.args[2]))

NextIter == AllBlocksLod

SpecIter == InitIter /\ [][NextIter]_vars

\* the positions a list of (block, x, y, z) items names
PositionsOf(items) == { <<items[i][2], items[i][3], items[i][4]>> : i \in DOMAIN items }

\* C27: for a tier l whose stride s = 2^l is at most CHUNK_SIZE,
\* all_blocks_lod(l) yields exactly the voxels with x mod s = 0 and
\* z mod s = 0 at every y of the chunk, each once and with the block stored
\* at it, which makes (CHUNK_SIZE / s)^2 * CHUNK_SIZE items where s divides
\* CHUNK_SIZE; the voxels of tier l + 1 are among those of tier l, and the
\* column x = 0, z = 0 is visited at every tier.
C27_LodColumns ==
    (Returned("all_blocks_lod") /\ Pow2(probe.args[2]) <= CHUNK_SIZE) =>
        LET c == chunks[probe.args[1]]
            l == probe.args[2]
            s == Pow2(l)
            out == probe.out[1]
        IN  /\ PositionsOf(out) = Visited(l)
            /\ PositionsOf(out) = all_lod(l)
            /\ \A i \in DOMAIN out : \A j \in DOMAIN out :
                  (out[i][2] = out[j][2] /\ out[i][3] = out[j][3] /\ out[i][4] = out[j][4])
                      => i = j
            /\ \A i \in DOMAIN out : out[i][1] = c.data[out[i][4]][out[i][3]][out[i][2]]
            /\ CHUNK_SIZE % s = 0 =>
                  Len(out) = (CHUNK_SIZE \div s) * (CHUNK_SIZE \div s) * CHUNK_SIZE
            /\ PositionsOf(all_blocks_lod(c, l + 1)) \subseteq PositionsOf(out)
            /\ \A y \in Idx : <<0, y, 0>> \in PositionsOf(out)

\* a generated chunk was iterated at tier 1: fewer items than voxels, and a
\* voxel that is not Air was left out
C27_Witness ==
    /\ Returned("all_blocks_lod")
    /\ probe.args[2] = 1 /\ Pow2(probe.args[2]) <= CHUNK_SIZE
    /\ chunks[probe.args[1]].generated
    /\ Len(probe.out[1]) < CHUNK_SIZE * CHUNK_SIZE * CHUNK_SIZE
    /\ \E p \in Idx \X Idx \X Idx :
          /\ get_unchecked(chunks[probe.args[1]], p) # "Air"
          /\ p \notin PositionsOf(probe.out[1])

(***************************************************************************)
(* Further properties of the streaming tick                                *)
(***************************************************************************)
\* between ticks the RenderEntry map and the live chunk entities match one
\* to one
EntriesMatchEntities ==
    (ran = {} /\ ~panicked) =>
        /\ \A e \in DOMAIN entities : \A f \in DOMAIN entities :
              entities[e].key = entities[f].key => e = f
        /\ { entities[e].key : e \in DOMAIN entities } = DOMAIN meshes
        /\ \A k \in DOMAIN meshes :
              /\ meshes[k].entity \in DOMAIN entities
              /\ entities[meshes[k].entity].key = k

\* the buffer of load_chunks holds no insert of NeedsMesh for an entity the
\* buffer of unload_chunks despawns
NoInsertOnDespawned ==
    \A e \in DOMAIN commands["load_chunks"] :
        commands["load_chunks"][e].op = "insert_needs_mesh" =>
            ~( /\ e \in DOMAIN commands["unload_chunks"]
               /\ commands["unload_chunks"][e].op = "despawn" )

\* C28: with the deferred commands applied there is at most one live chunk
\* entity per key, the keys of the RenderEntry map are the keys of the live
\* chunk entities and each entry's handle is the live entity of its key; and
\* load_chunks never issues an insert of NeedsMesh for an entity that
\* unload_chunks has despawned.
C28_EntriesOneToOne ==
    /\ EntriesMatchEntities
    /\ NoInsertOnDespawned

\* C29: in every reachable state the key of every chunk entity that carries
\* NeedsTerrain, of every RenderEntry and of every entity a RenderEntry
\* names or a queued spawn creates is a key of the chunk store, so the
\* get_mut(..).unwrap() of generate_terrain finds its chunk.
C29_StoreHoldsKeys ==
    /\ \A e \in DOMAIN entities :
          entities[e].needsTerrain => entities[e].key \in DOMAIN chunks
    /\ \A k \in DOMAIN meshes :
          /\ k \in DOMAIN chunks
          /\ meshes[k].entity \in DOMAIN entities =>
                entities[meshes[k].entity].key \in DOMAIN chunks
    /\ \A e \in DOMAIN commands["load_chunks"] :
          commands["load_chunks"][e].op = "spawn" =>
              commands["load_chunks"][e].key \in DOMAIN chunks
    /\ \A e \in DOMAIN tpc : tpc[e] = "publish" => entities[e].key \in DOMAIN chunks

\* unload_chunks has evicted an entity that still carries NeedsTerrain and
\* generate_terrain, running after it in the same tick, has filled and
\* published the chunk of that entity
C29_Witness ==
    /\ ~panicked
    /\ {"unload_chunks", "generate_terrain"} \subseteq ran
    /\ \E e \in DOMAIN commands["unload_chunks"] :
          /\ commands["unload_chunks"][e].op = "despawn"
          /\ e \in DOMAIN entities /\ entities[e].needsTerrain
          /\ entities[e].key \notin DOMAIN meshes
          /\ e \in DOMAIN commands["generate_terrain"]
          /\ chunks[entities[e].key].generated

(***************************************************************************)
(* The mask and the position update                                        *)
(***************************************************************************)
\* the step is a run of move_camera
IsMoveStep == "move_camera" \notin ran /\ "move_camera" \in ran'

\* every component of the mask is 0 or 1, and the velocity is 0 on every axis
\* the mask blocks
MaskAgrees ==
    \A a \in 1 .. 3 :
        /\ velocityMask[a] \in {0, 1}
        /\ velocityMask[a] = 0 => velocity[a] = 0

\* C30: after every run of collision each component of the mask is 0 or 1
\* and the velocity is 0 on every axis whose mask component is 0, so
\* velocity * mask = velocity; and the position update of move_camera leaves
\* the observer where it was on every axis blocked in the tick.
C30_MaskAndVelocity ==
    /\ [](Collided => (MaskAgrees /\ VMul(velocity, velocityMask) = velocity))
    /\ [][ IsMoveStep =>
             \A a \in 1 .. 3 :
                 /\ velocityMask[a] = 0 => translation'[a] = translation[a]
                 /\ translation'[a] = translation[a] + velocity[a] * delta ]_vars

\* move_camera has run after a collision that blocked an axis the observer
\* was moving along and left free another axis it was moving along
C30_Witness ==
    /\ ran = {"collision", "move_camera"}
    /\ \E a \in 1 .. 3 : velocityMask[a] = 0 /\ prevVelocity[a] # 0
    /\ \E b \in 1 .. 3 : velocityMask[b] = 1 /\ prevVelocity[b] # 0

====
